---- MODULE Spec2Model ----
(***************************************************************************)
(* Model of the Danish rent roll parser (src/backend/parser.py).           *)
(*                                                                         *)
(* A Python string is a sequence of one-character strings, so that strip,  *)
(* lower, substring tests and the number conversion are computed character *)
(* by character as the code computes them.  The Python value None is the   *)
(* one-element tuple None below, which no string equals.  A Python float   *)
(* is an exact rational [ok, n, d] (ok = FALSE stands for None): binary    *)
(* rounding error of IEEE doubles is not modelled.                         *)
(***************************************************************************)
EXTENDS Integers, Sequences, FiniteSets, TLC

VARIABLES
    pc,             \* position of the run
    path,           \* parse_rent_roll's argument: [ext, exists]
    error,          \* error_type of the ParseError raised, or "none"
    calls,          \* collaborators called so far, in call order
    confidence,     \* result["confidence"]
    parse_warnings, \* result["parse_warnings"]
    header_found,   \* local header_found
    header_row,     \* result["header_row"] (0 = None)
    columns,        \* result["columns"]
    column_mapping, \* result["column_mapping"]: sequence of <<key, tag>>, insertion order
    all_rows,       \* local all_rows / result["rows"]
    workbook,       \* the opened workbook: per sheet [rows, fails] (fails: reading it raises)
    sheet_names,    \* workbook sheet names
    sheet_idx,      \* number of sheets the loop has consumed
    sheets_used,    \* result["source_info"]["sheets_used"]
    pages,          \* result["source_info"]["pages"]
    pdf,            \* the opened PDF: per page the tables extract_tables() yields
    all_tables,     \* local all_tables: sequence of [page, rows]
    table_idx,      \* number of tables the merge loop has consumed
    seen_headers,   \* local seen_headers
    data_rows,      \* local data_rows of parse_pdf (survives loop iterations)
    ocr_used,       \* result["source_info"]["ocr_used"]
    returned,       \* the record returned: [total_rows, summary, data_quality] or NoReturn
    arg,            \* argument of the pure function under check
    ret             \* its return value

vars == <<pc, path, error, calls, confidence, parse_warnings, header_found,
          header_row, columns, column_mapping, all_rows, workbook, sheet_names,
          sheet_idx, sheets_used, pages, pdf, all_tables, table_idx, seen_headers,
          data_rows, ocr_used, returned, arg, ret>>

(***************************************************************************)
(* Strings                                                                 *)
(***************************************************************************)
None == <<"None">>

Digits == {"0","1","2","3","4","5","6","7","8","9"}

Whitespace == {" ", "\t"}

UpperToLower ==
    [c \in {"A","B","C","D","E","F","G","H","I","J","K","L","M","N","O","P","Q",
            "R","S","T","U","V","W","X","Y","Z"} |->
        CASE c = "A" -> "a" [] c = "B" -> "b" [] c = "C" -> "c" [] c = "D" -> "d"
          [] c = "E" -> "e" [] c = "F" -> "f" [] c = "G" -> "g" [] c = "H" -> "h"
          [] c = "I" -> "i" [] c = "J" -> "j" [] c = "K" -> "k" [] c = "L" -> "l"
          [] c = "M" -> "m" [] c = "N" -> "n" [] c = "O" -> "o" [] c = "P" -> "p"
          [] c = "Q" -> "q" [] c = "R" -> "r" [] c = "S" -> "s" [] c = "T" -> "t"
          [] c = "U" -> "u" [] c = "V" -> "v" [] c = "W" -> "w" [] c = "X" -> "x"
          [] c = "Y" -> "y" [] c = "Z" -> "z"]

LowerChar(c) == IF c \in DOMAIN UpperToLower THEN UpperToLower[c] ELSE c

\* str.lower()
Lower(s) == [i \in 1..Len(s) |-> LowerChar(s[i])]

\* str.strip()
Strip(s) ==
    LET keep == {i \in 1..Len(s) : s[i] \notin Whitespace}
    IN IF keep = {} THEN <<>>
       ELSE LET lo == CHOOSE i \in keep : \A j \in keep : i <= j
                hi == CHOOSE i \in keep : \A j \in keep : j <= i
            IN SubSeq(s, lo, hi)

\* sub in s
Contains(s, sub) ==
    \E i \in 1..(Len(s) - Len(sub) + 1) : SubSeq(s, i, i + Len(sub) - 1) = sub

\* the characters of s that satisfy keep, in order
RECURSIVE FilterChars(_, _)
FilterChars(s, drop) ==
    IF s = <<>> THEN <<>>
    ELSE IF Head(s) \in drop THEN FilterChars(Tail(s), drop)
    ELSE <<Head(s)>> \o FilterChars(Tail(s), drop)

\* s.count(c)
CountChar(s, c) == Cardinality({i \in 1..Len(s) : s[i] = c})

\* s.replace(a, b) for one-character a and b
ReplaceChar(s, a, b) == [i \in 1..Len(s) |-> IF s[i] = a THEN b ELSE s[i]]

(***************************************************************************)
(* Numbers                                                                 *)
(***************************************************************************)
RECURSIVE Gcd(_, _)
Gcd(a, b) == IF b = 0 THEN a ELSE Gcd(b, a % b)

Abs(a) == IF a < 0 THEN -a ELSE a

\* the float n/d, in lowest terms with d > 0
Num(n, d) ==
    LET g == Gcd(Abs(n), Abs(d))
        s == IF d < 0 THEN -1 ELSE 1
    IN [ok |-> TRUE, n |-> s * (n \div g), d |-> s * (d \div g)]

NoneNum == [ok |-> FALSE, n |-> 0, d |-> 1]

Zero == Num(0, 1)

Add(a, b) == Num(a.n * b.d + b.n * a.d, a.d * b.d)

Div(a, b) == Num(a.n * b.d, a.d * b.n)

Positive(a) == a.ok /\ a.n > 0

DigitVal ==
    [c \in Digits |->
        CASE c = "0" -> 0 [] c = "1" -> 1 [] c = "2" -> 2 [] c = "3" -> 3
          [] c = "4" -> 4 [] c = "5" -> 5 [] c = "6" -> 6 [] c = "7" -> 7
          [] c = "8" -> 8 [] c = "9" -> 9]

RECURSIVE DigitsVal(_)
DigitsVal(s) ==
    IF s = <<>> THEN 0 ELSE 10 * DigitsVal(SubSeq(s, 1, Len(s) - 1)) + DigitVal[s[Len(s)]]

RECURSIVE Pow10(_)
Pow10(k) == IF k = 0 THEN 1 ELSE 10 * Pow10(k - 1)

AllDigits(s) == \A i \in 1..Len(s) : s[i] \in Digits

\* float(s) for a string without whitespace, exponent, underscore, inf or nan:
\* [sign] digits [. digits] with at least one digit; NoneNum stands for ValueError
ParseFloat(s) ==
    LET signed == s /= <<>> /\ s[1] \in {"-", "+"}
        body == IF signed THEN Tail(s) ELSE s
        dots == {i \in 1..Len(body) : body[i] = "."}
        dot == IF dots = {} THEN Len(body) + 1 ELSE CHOOSE i \in dots : TRUE
        ip == SubSeq(body, 1, dot - 1)
        fp == SubSeq(body, dot + 1, Len(body))
    IN IF Cardinality(dots) <= 1 /\ AllDigits(ip) /\ AllDigits(fp) /\ Len(ip) + Len(fp) >= 1
       THEN Num((IF signed /\ s[1] = "-" THEN -1 ELSE 1) * DigitsVal(ip \o fp), Pow10(Len(fp)))
       ELSE NoneNum

\* round(x, 2): to the nearest hundredth, ties to the even hundredth
Round2(x) ==
    LET t == x.n * 100
        q == t \div x.d
        r == t % x.d
    IN IF 2 * r > x.d \/ (2 * r = x.d /\ q % 2 = 1) THEN Num(q + 1, 100) ELSE Num(q, 100)

\* the characters re.sub(r'[kr\s€$]', '', value, flags=re.IGNORECASE) removes
CurrencyChars == {"k", "K", "r", "R", "€", "$"} \cup Whitespace

\* value.split('.') for a value with exactly one period
SplitPeriod(s) ==
    LET dot == CHOOSE i \in 1..Len(s) : s[i] = "."
    IN <<SubSeq(s, 1, dot - 1), SubSeq(s, dot + 1, Len(s))>>

convert_danish_number(value) ==
    IF value = None THEN NoneNum
    ELSE LET stripped == Strip(value) IN
    IF stripped = <<>> THEN NoneNum
    ELSE LET v == FilterChars(stripped, CurrencyChars) IN
    IF \A i \in 1..Len(v) : v[i] \notin Digits THEN NoneNum
    ELSE LET period_count == CountChar(v, ".")
             w == IF CountChar(v, ",") > 0
                  THEN ReplaceChar(FilterChars(v, {"."}), ",", ".")
                  ELSE IF period_count = 1
                  THEN LET parts == SplitPeriod(v)
                       IN IF Len(parts[2]) = 3 /\ Len(parts[1]) <= 3
                          THEN FilterChars(v, {"."}) ELSE v
                  ELSE IF period_count > 1 THEN FilterChars(v, {"."})
                  ELSE v
         IN ParseFloat(w)

(***************************************************************************)
(* Initial values of the variables a specification does not use            *)
(***************************************************************************)
NoReturn == [total_rows |-> -1]

NoPath == [ext |-> "", exists |-> FALSE]

IdlePipeline ==
    /\ path = NoPath
    /\ error = "none"
    /\ calls = <<>>
    /\ confidence = "high"
    /\ parse_warnings = <<>>
    /\ header_found = FALSE
    /\ header_row = 0
    /\ columns = <<>>
    /\ column_mapping = <<>>
    /\ all_rows = <<>>
    /\ workbook = <<>>
    /\ sheet_names = <<>>
    /\ sheet_idx = 0
    /\ sheets_used = <<>>
    /\ pages = 0
    /\ pdf = <<>>
    /\ all_tables = <<>>
    /\ table_idx = 0
    /\ seen_headers = {}
    /\ data_rows = <<>>
    /\ ocr_used = FALSE
    /\ returned = NoReturn

pipelineVars == <<path, error, calls, confidence, parse_warnings, header_found,
                  header_row, columns, column_mapping, all_rows, workbook,
                  sheet_names, sheet_idx, sheets_used, pages, pdf, all_tables, table_idx,
                  seen_headers, data_rows, ocr_used, returned>>

(***************************************************************************)
(* The Numeric Normalizer on its own                                       *)
(***************************************************************************)
MaxStrLen == 4

NumberAlphabet == {"0", "1", "5", ".", ",", "-", "k", " ", "a"}

RECURSIVE StringsUpTo(_, _)
StringsUpTo(alphabet, k) ==
    IF k = 0 THEN {<<>>}
    ELSE LET shorter == StringsUpTo(alphabet, k - 1)
         IN shorter \cup {Append(s, c) : s \in {t \in shorter : Len(t) = k - 1}, c \in alphabet}

\* the inputs of test_danish_number_conversion and of the specification's examples
NumberExamples ==
    { <<"7","2",".","0","0","0">>,
      <<"1",".","2","3","4",".","5","6","7">>,
      <<"1",".","2","3","4",",","5","6">>,
      <<"1","0","0">>,
      <<"5","0",",","5">>,
      <<"k","r"," ","7","2",".","0","0","0">>,
      <<>>,
      None,
      <<"1",".","5">> }

\* signed and prefixed amounts with one thousands period
GroupedAmounts ==
    { pre \o ip \o <<".">> \o fp :
        pre \in {<<>>, <<"-">>, <<"+">>, <<"K","R"," ">>, <<"$">>},
        ip \in {<<"1">>, <<"1","2">>, <<"1","2","3">>, <<"1","2","3","4">>},
        fp \in {<<"4","5">>, <<"4","5","6">>, <<"4","5","6","7">>} }

NumberInputs == StringsUpTo(NumberAlphabet, MaxStrLen) \cup NumberExamples \cup GroupedAmounts

InitNumber ==
    /\ pc = "call"
    /\ arg \in NumberInputs
    /\ ret = NoneNum
    /\ IdlePipeline

ConvertNumber ==
    /\ pc = "call"
    /\ ret' = convert_danish_number(arg)
    /\ pc' = "return"
    /\ UNCHANGED <<arg, pipelineVars>>

NextNumber == ConvertNumber

SpecNumber == InitNumber /\ [][NextNumber]_vars

(***************************************************************************)
(* Normalizing a normalized number                                         *)
(***************************************************************************)
DigitChar == <<"0","1","2","3","4","5","6","7","8","9">>

\* the decimal digits of the natural number m, at least width of them
RECURSIVE DigitsOf(_, _)
DigitsOf(m, width) ==
    IF m < 10 /\ width <= 1 THEN <<DigitChar[m + 1]>>
    ELSE Append(DigitsOf(m \div 10, width - 1), DigitChar[(m % 10) + 1])

\* the number of decimals of x, a float with at most 6 of them
Decimals(x) == CHOOSE k \in 0..6 : (x.n * Pow10(k)) % x.d = 0 /\ \A j \in 0..(k - 1) : (x.n * Pow10(j)) % x.d /= 0

\* str(x) for such a float: sign, integer part, point, decimals ("72000.0")
FormatFloat(x) ==
    LET k == Decimals(x)
        scaled == (Abs(x.n) * Pow10(k)) \div x.d
    IN (IF x.n < 0 THEN <<"-">> ELSE <<>>)
       \o DigitsOf(scaled \div Pow10(k), 1) \o <<".">>
       \o (IF k = 0 THEN <<"0">> ELSE DigitsOf(scaled % Pow10(k), k))

\* a variant without the isinstance branch: the float goes through str(value)
\* and is parsed again
ConvertReparsed(x) == IF ~x.ok THEN NoneNum ELSE convert_danish_number(FormatFloat(x))

\* convert_danish_number of a value it returned: None gives None, a float is
\* returned by the isinstance branch as float(value)
ConvertNormalized(x) == IF ~x.ok THEN NoneNum ELSE Num(x.n, x.d)

\* the input the idempotence property names
ThreeDecimals == <<"1",",","2","3","4">>

InitRenormalize ==
    /\ pc = "call"
    /\ arg \in NumberInputs \cup {ThreeDecimals}
    /\ ret = NoneNum
    /\ IdlePipeline

\* the second call, on the value the first returned; arg becomes that value
ConvertAgain ==
    /\ pc = "return"
    /\ arg' = ret
    /\ ret' = ConvertNormalized(ret)
    /\ pc' = "again"
    /\ UNCHANGED pipelineVars

NextRenormalize == ConvertNumber \/ ConvertAgain

SpecRenormalize == InitRenormalize /\ [][NextRenormalize]_vars

\* C15: normalizing a normalized number is a no-op: the second call returns the
\* value it is given, the result of the first
C15_NormalizeIsIdempotent == pc = "again" => ret = arg

\* the normalized value has exactly three decimals and at most three digits
\* before the point, the shape a string would be read differently in
C15_Witness ==
    /\ pc = "again"
    /\ arg.ok
    /\ Decimals(arg) = 3
    /\ Abs(arg.n) < 1000 * arg.d
    /\ ret = Num(1234, 1000)

\* a null is normalized to a null
NullStaysNull == pc = "again" /\ ~arg.ok /\ ~ret.ok

\* the number a decimal literal written as digits and one optional point denotes
Lit(n, d) == Num(n, d)

\* C5, the rule as the claim words it: the period of a comma-free value is a
\* thousands separator when exactly 3 digits follow it and at most 3 digits
\* precede it
DigitCount(s) == Cardinality({i \in 1..Len(s) : s[i] \in Digits})

ClaimedNumber(value) ==
    IF value = None THEN NoneNum
    ELSE LET v == FilterChars(value, CurrencyChars) IN
    IF DigitCount(v) = 0 THEN NoneNum
    ELSE IF CountChar(v, ",") > 0 THEN ParseFloat(ReplaceChar(FilterChars(v, {"."}), ",", "."))
    ELSE IF CountChar(v, ".") > 1 THEN ParseFloat(FilterChars(v, {"."}))
    ELSE IF CountChar(v, ".") = 1
            /\ LET parts == SplitPeriod(v)
               IN Len(parts[2]) = 3 /\ AllDigits(parts[2]) /\ DigitCount(parts[1]) <= 3
    THEN ParseFloat(FilterChars(v, {"."}))
    ELSE ParseFloat(v)

\* C5: for every input string the Numeric Normalizer returns what the stated
\* rule gives (currency characters and whitespace stripped, null without a
\* digit, comma as decimal point, a lone period with exactly 3 digits after it
\* and at most 3 digits before it removed, several periods removed, null when
\* the remainder does not parse)
C5_NormalizerFollowsStatedRule ==
    pc = "return" => ret = ClaimedNumber(arg)

\* the examples C5 lists: "72.000", "1.234.567", "1.234,56", "kr 72.000",
\* "50,5", "" and "1.5"
NumberExamplesHold ==
    pc = "return" =>
        /\ arg = <<"7","2",".","0","0","0">> => ret = Lit(72000, 1)
        /\ arg = <<"1",".","2","3","4",".","5","6","7">> => ret = Lit(1234567, 1)
        /\ arg = <<"1",".","2","3","4",",","5","6">> => ret = Lit(123456, 100)
        /\ arg = <<"k","r"," ","7","2",".","0","0","0">> => ret = Lit(72000, 1)
        /\ arg = <<"5","0",",","5">> => ret = Lit(505, 10)
        /\ arg = <<>> => ret = NoneNum
        /\ arg = <<"1",".","5">> => ret = Lit(15, 10)

(***************************************************************************)
(* Rows the examples below are built from                                  *)
(***************************************************************************)
RowHeader ==
    <<<<"L","e","j","n","r">>, <<"A","r","e","a","l">>, <<"L","e","j","e">>>>

RowHeaderWide ==
    <<<<"A","r","e","a","l">>, <<"L","e","j","e">>, <<"x">>>>

RowHeaderShort ==
    <<<<"A","r","e","a","l">>, <<"L","e","j","e">>>>

RowHeaderNone ==
    <<None, <<" ","A","R","E","A","L"," ","M","2"," ">>, <<"L","e","j","e">>>>

RowData1 ==
    <<<<"A","1">>, <<"5","0">>, <<"1","0",".","0","0","0">>>>

RowData2 ==
    <<<<"A","2">>, <<"0">>, <<"0">>>>

RowData3 ==
    <<<<"A","3">>, <<>>, <<"5",".","0","0","0">>>>

RowEmpty ==
    <<<<>>, <<>>, <<>>>>

RowTotal ==
    <<<<"T","o","t","a","l">>, <<"5","0">>, <<"1","5",".","0","0","0">>>>

RowSparse ==
    <<<<"x">>, <<>>, <<>>>>

RowData4 ==
    <<<<"A","4">>, <<"3">>, <<"1","0","0">>>>

RowData5 ==
    <<<<"A","5">>, <<"0",",","1","2","5">>, <<"-","5">>>>

RowShort ==
    <<<<"A","6">>, <<"7">>>>

RowHeaderTyped ==
    <<<<"L","e","j","n","r">>, <<"A","r","e","a","l">>, <<"L","e","j","e">>, <<"T","y","p","e">>, <<"S","t","a","t","u","s">>>>

RowTyped1 ==
    <<<<"B","1">>, <<"4","0">>, <<"8",".","0","0","0">>, <<"B","o","l","i","g">>, <<"U","d","l","e","j","e","t">>>>

RowTyped2 ==
    <<<<"B","2">>, <<"2","0">>, <<"0">>, <<"K","o","n","t","o","r">>, <<"L","e","d","i","g">>>>

RowHeaderNoSqm ==
    <<<<"L","e","j","n","r">>, <<"L","e","j","e">>, <<"E","t","a","g","e">>>>

(***************************************************************************)
(* Header Locator                                                          *)
(***************************************************************************)
HEADER_KEYWORDS ==
    << <<"l","e","j","e","m","å","l">>,
       <<"l","e","j","n","r">>,
       <<"a","r","e","a","l">>,
       <<"m","2">>,
       <<"k","v","m">>,
       <<"l","e","j","e">>,
       <<"å","r","l","i","g">>,
       <<"n","r">>,
       <<"b","e","l">>,
       <<"e","t","a","g","e">>,
       <<"b","e","m">>,
       <<"b","e","m","æ","r","k","n","i","n","g">>,
       <<"r","e","g">>,
       <<"r","e","g","u","l","e","r","i","n","g">>,
       <<"s","t","a","r","t">>,
       <<"i","n","d","f","l","y","t","n","i","n","g">>,
       <<"t","y","p","e">>,
       <<"a","n","v","e","n","d","e","l","s","e">>,
       <<"u","n","i","t","_","i","d">>,
       <<"s","i","z","e","_","s","q","m">>,
       <<"s","q","m">>,
       <<"a","r","e","a">>,
       <<"r","e","n","t">>,
       <<"f","l","o","o","r">>,
       <<"a","d","d","r","e","s","s">>,
       <<"z","i","p","c","o","d","e">>,
       <<"p","o","s","t","a","l">>,
       <<"d","o","o","r">>,
       <<"r","o","o","m","s">>,
       <<"l","e","a","s","e">>,
       <<"t","e","n","a","n","t">> >>

MaxHeaderRows == 15

\* str(cell).lower().strip() if cell is not None else ""
CellText(cell) == IF cell = None THEN <<>> ELSE Strip(Lower(cell))

\* the inner loop over HEADER_KEYWORDS with its break: does any keyword occur
RECURSIVE AnyKeywordFrom(_, _, _)
AnyKeywordFrom(cell, keywords, k) ==
    IF k > Len(keywords) THEN FALSE
    ELSE IF Contains(cell, keywords[k]) THEN TRUE
    ELSE AnyKeywordFrom(cell, keywords, k + 1)

\* the loop over cells: one point per cell in which a keyword occurs
RECURSIVE KeywordPoints(_)
KeywordPoints(cells) ==
    IF cells = <<>> THEN 0
    ELSE (IF AnyKeywordFrom(Head(cells), HEADER_KEYWORDS, 1) THEN 1 ELSE 0)
         + KeywordPoints(Tail(cells))

BonusPoints(non_empty) == IF non_empty >= 3 THEN 1 ELSE 0

ComputeRowScore(row) ==
    LET cells == [i \in 1..Len(row) |-> CellText(row[i])]
        non_empty == Cardinality({i \in 1..Len(cells) : cells[i] /= <<>>})
    IN KeywordPoints(cells) + BonusPoints(non_empty)

\* the rows of the examples, scored once
ExampleRows ==
    {RowHeader, RowHeaderWide, RowHeaderShort, RowHeaderNone, RowData1, RowData2,
     RowData3, RowEmpty, RowTotal, RowSparse, RowData4, RowData5, RowShort,
     RowHeaderTyped, RowTyped1, RowTyped2, RowHeaderNoSqm, <<>>}

ExampleRowScore == [r \in ExampleRows |-> ComputeRowScore(r)]

RowScore(row) == IF row \in ExampleRows THEN ExampleRowScore[row] ELSE ComputeRowScore(row)

\* a variant in which an equal score replaces the best (ties favour the last row)
ScoreBeatsOrTies(score, best_score) == score >= best_score

\* a variant that takes the first row reaching the threshold and keeps it
ScoreReachesThreshold(score, best_score) == score >= 2 /\ best_score < 2

\* if score > best_score
ScoreBeats(score, best_score) == score > best_score

\* rows[:max_rows]
ScanWindow(rows, max_rows) == SubSeq(rows, 1, IF Len(rows) < max_rows THEN Len(rows) ELSE max_rows)

\* the scan loop from 0-based index idx on; best is [score, idx, row]
RECURSIVE ScanRows(_, _, _)
ScanRows(window, idx, best) ==
    IF idx >= Len(window) THEN best
    ELSE LET row == window[idx + 1] IN
         IF row = <<>> THEN ScanRows(window, idx + 1, best)
         ELSE LET score == RowScore(row) IN
              IF ScoreBeats(score, best.score)
              THEN ScanRows(window, idx + 1, [score |-> score, idx |-> idx, row |-> row])
              ELSE ScanRows(window, idx + 1, best)

NoHeader == [found |-> FALSE, idx |-> -1, row |-> <<>>]

\* found = FALSE stands for ParseError("no_header_found"); idx is 0-based
find_header_row(rows, max_rows) ==
    LET best == ScanRows(ScanWindow(rows, max_rows), 0, [score |-> 0, idx |-> -1, row |-> None])
    IN IF best.score < 2 THEN NoHeader
       ELSE [found |-> TRUE, idx |-> best.idx, row |-> best.row]

(***************************************************************************)
(* The Header Locator on its own                                           *)
(***************************************************************************)
\* how many rows a table may have beyond the scanned window
MaxBeyond == 2

HeaderCandidates ==
    {RowHeader, RowHeaderWide, RowHeaderShort, RowHeaderNone, RowData1, RowEmpty, <<>>}

\* a table of n data rows in which rows i and j are replaced by candidates
HeaderTable(n, i, a, j, b) == [[k \in 1..n |-> RowData1] EXCEPT ![i] = a, ![j] = b]

InitHeader ==
    /\ pc = "call"
    /\ \/ arg = <<>>
       \/ \E n \in 1..(MaxHeaderRows + MaxBeyond) :
            \E i \in 1..n, j \in 1..n, a \in HeaderCandidates, b \in HeaderCandidates :
                arg = HeaderTable(n, i, a, j, b)
    /\ ret = NoHeader
    /\ IdlePipeline

FindHeader ==
    /\ pc = "call"
    /\ ret' = find_header_row(arg, MaxHeaderRows)
    /\ pc' = "return"
    /\ UNCHANGED <<arg, pipelineVars>>

NextHeader == FindHeader

SpecHeader == InitHeader /\ [][NextHeader]_vars

\* the score the claim describes: the number of cells in which some keyword
\* occurs, plus one when at least 3 cells are non-empty
ClaimedScore(row) ==
    Cardinality({i \in 1..Len(row) :
                    \E k \in 1..Len(HEADER_KEYWORDS) : Contains(CellText(row[i]), HEADER_KEYWORDS[k])})
    + (IF Cardinality({i \in 1..Len(row) : CellText(row[i]) /= <<>>}) >= 3 THEN 1 ELSE 0)

ClaimedScoreOf == [r \in ExampleRows |-> ClaimedScore(r)]

\* 1-based positions of the first 15 rows
Scanned(rows) == {i \in 1..Len(rows) : i <= 15}

BestIn(rows) ==
    IF Scanned(rows) = {} THEN 0
    ELSE LET i == CHOOSE i \in Scanned(rows) :
                      \A j \in Scanned(rows) : ClaimedScoreOf[rows[j]] <= ClaimedScoreOf[rows[i]]
         IN ClaimedScoreOf[rows[i]]

\* C10: the Header Locator fails exactly when the best score among the first 15
\* rows is below 2; otherwise it returns the row of highest score among the
\* first 15, the earliest one among equals, whatever the rows beyond the 15th
C10_HeaderIsEarliestBest ==
    pc = "return" =>
        /\ ret.found <=> BestIn(arg) >= 2
        /\ ret.found =>
            /\ ret.idx + 1 \in Scanned(arg)
            /\ ret.row = arg[ret.idx + 1]
            /\ ClaimedScoreOf[ret.row] = BestIn(arg)
            /\ \A j \in Scanned(arg) : j < ret.idx + 1 => ClaimedScoreOf[arg[j]] < BestIn(arg)

\* two rows of the window share the highest score, rows precede them, and the
\* earlier of the two is returned
C10_Witness ==
    /\ pc = "return"
    /\ ret.found
    /\ \E j \in Scanned(arg) : j > ret.idx + 1 /\ ClaimedScoreOf[arg[j]] = BestIn(arg)
    /\ \E j \in Scanned(arg) : j < ret.idx + 1

\* a header is returned although a row beyond the window scores higher
BetterHeaderBeyondWindowIgnored ==
    /\ pc = "return"
    /\ ret.found
    /\ \E j \in 1..Len(arg) : j > 15 /\ ClaimedScoreOf[arg[j]] > BestIn(arg)

\* a table whose only row scoring 2 or more lies beyond the window is rejected
HeaderBeyondWindowRejected ==
    /\ pc = "return"
    /\ ~ret.found
    /\ \E j \in 1..Len(arg) : ClaimedScoreOf[arg[j]] >= 2

\* the scanned positions whose row scores at least 2
ReachingTwo(rows) == {i \in Scanned(rows) : ClaimedScoreOf[rows[i]] >= 2}

\* the scanned positions whose row has the highest score of the window
Highest(rows) ==
    {i \in Scanned(rows) : \A j \in Scanned(rows) : ClaimedScoreOf[rows[j]] <= ClaimedScoreOf[rows[i]]}

\* the least element of a non-empty set of positions
First(S) == CHOOSE i \in S : \A j \in S : i <= j

\* C11 as stated: the returned header index is the smallest index i < 15 whose
\* row scores at least 2, and a table with no row reaching 2 fails with
\* NoHeaderFound
C11_HeaderIsFirstReachingTwo ==
    pc = "return" =>
        /\ ~ret.found <=> ReachingTwo(arg) = {}
        /\ ret.found => ret.idx + 1 = First(ReachingTwo(arg))

\* C11 amended: the returned header index is the smallest index i < 15 whose
\* row has the highest score of the first 15 rows, that score being at least 2;
\* a table with no row reaching 2 fails with NoHeaderFound
C11_HeaderIsFirstOfHighest ==
    pc = "return" =>
        /\ ~ret.found <=> ReachingTwo(arg) = {}
        /\ ret.found =>
              /\ ret.idx + 1 = First(Highest(arg))
              /\ ret.idx + 1 \in ReachingTwo(arg)

\* a row scoring at least 2 precedes the returned header, which scores higher
C11_Witness ==
    /\ pc = "return"
    /\ ret.found
    /\ First(ReachingTwo(arg)) < ret.idx + 1
    /\ ClaimedScoreOf[arg[First(ReachingTwo(arg))]] < ClaimedScoreOf[ret.row]

(***************************************************************************)
(* Configuration tables                                                    *)
(***************************************************************************)
COLUMN_MAPPING ==
    << << <<"l","e","j","n","r">>, "unit_id" >>,
       << <<"l","e","j","e","m","å","l">>, "unit_id" >>,
       << <<"l","e","j","e","n","r">>, "unit_id" >>,
       << <<"l","e","j","e","m","å","l","s","n","r">>, "unit_id" >>,
       << <<"n","r">>, "unit_id" >>,
       << <<"u","n","i","t","_","i","d">>, "unit_id" >>,
       << <<"a","r","e","a","l">>, "sqm" >>,
       << <<"m","2">>, "sqm" >>,
       << <<"k","v","m">>, "sqm" >>,
       << <<"m","²">>, "sqm" >>,
       << <<"k","v","a","d","r","a","t","m","e","t","e","r">>, "sqm" >>,
       << <<"s","i","z","e","_","s","q","m">>, "sqm" >>,
       << <<"s","q","m">>, "sqm" >>,
       << <<"a","r","e","a">>, "sqm" >>,
       << <<"s","i","z","e">>, "sqm" >>,
       << <<"l","e","j","e">>, "annual_rent" >>,
       << <<"å","r","l","i","g">>, "annual_rent" >>,
       << <<"å","r","l","i","g","l","e","j","e">>, "annual_rent" >>,
       << <<"å","r","l","i","g"," ","l","e","j","e">>, "annual_rent" >>,
       << <<"h","u","s","l","e","j","e">>, "annual_rent" >>,
       << <<"r","e","n","t","_","c","u","r","r","e","n","t","_","g","r","i">>, "annual_rent" >>,
       << <<"r","e","n","t","_","c","u","r","r","e","n","t">>, "annual_rent" >>,
       << <<"a","n","n","u","a","l","_","r","e","n","t">>, "annual_rent" >>,
       << <<"r","e","n","t">>, "annual_rent" >>,
       << <<"g","r","i">>, "annual_rent" >>,
       << <<"b","e","l">>, "floor" >>,
       << <<"e","t","a","g","e">>, "floor" >>,
       << <<"b","e","l","i","g","g","e","n","h","e","d">>, "floor" >>,
       << <<"u","n","i","t","_","f","l","o","o","r">>, "floor" >>,
       << <<"f","l","o","o","r">>, "floor" >>,
       << <<"t","y","p","e">>, "unit_type" >>,
       << <<"a","n","v","e","n","d","e","l","s","e">>, "unit_type" >>,
       << <<"l","e","j","e","m","å","l","s","t","y","p","e">>, "unit_type" >>,
       << <<"u","n","i","t","_","t","y","p","e">>, "unit_type" >>,
       << <<"s","t","a","r","t">>, "lease_start" >>,
       << <<"i","n","d","f","l","y","t","n","i","n","g">>, "lease_start" >>,
       << <<"s","t","a","r","t","d","a","t","o">>, "lease_start" >>,
       << <<"i","n","d","f","l","y","t","n","i","n","g","s","d","a","t","o">>, "lease_start" >>,
       << <<"l","e","a","s","e","_","s","t","a","r","t">>, "lease_start" >>,
       << <<"l","e","a","s","e","_","e","n","d">>, "lease_end" >>,
       << <<"s","l","u","t","d","a","t","o">>, "lease_end" >>,
       << <<"f","r","a","f","l","y","t","n","i","n","g">>, "lease_end" >>,
       << <<"b","e","m">>, "notes" >>,
       << <<"b","e","m","æ","r","k","n","i","n","g">>, "notes" >>,
       << <<"b","e","m","æ","r","k","n","i","n","g","e","r">>, "notes" >>,
       << <<"n","o","t","e">>, "notes" >>,
       << <<"n","o","t","e","r">>, "notes" >>,
       << <<"n","o","t","e","s">>, "notes" >>,
       << <<"r","e","g">>, "rent_adjustment" >>,
       << <<"r","e","g","u","l","e","r","i","n","g">>, "rent_adjustment" >>,
       << <<"l","e","j","e","r","e","g","u","l","e","r","i","n","g">>, "rent_adjustment" >>,
       << <<"u","n","i","t","_","a","d","d","r","e","s","s">>, "address" >>,
       << <<"a","d","d","r","e","s","s">>, "address" >>,
       << <<"a","d","r","e","s","s","e">>, "address" >>,
       << <<"u","n","i","t","_","z","i","p","c","o","d","e">>, "postal_code" >>,
       << <<"z","i","p","c","o","d","e">>, "postal_code" >>,
       << <<"p","o","s","t","a","l","_","c","o","d","e">>, "postal_code" >>,
       << <<"p","o","s","t","n","r">>, "postal_code" >>,
       << <<"p","o","s","t","n","u","m","m","e","r">>, "postal_code" >>,
       << <<"u","n","i","t","_","d","o","o","r">>, "door" >>,
       << <<"d","o","o","r">>, "door" >>,
       << <<"d","ø","r">>, "door" >>,
       << <<"r","o","o","m","s","_","a","m","o","u","n","t">>, "rooms" >>,
       << <<"r","o","o","m","s">>, "rooms" >>,
       << <<"v","æ","r","e","l","s","e","r">>, "rooms" >>,
       << <<"t","e","n","a","n","t","_","n","a","m","e","1">>, "tenant_name" >>,
       << <<"t","e","n","a","n","t","_","n","a","m","e">>, "tenant_name" >>,
       << <<"l","e","j","e","r">>, "tenant_name" >>,
       << <<"l","e","j","e","r","n","a","v","n">>, "tenant_name" >>,
       << <<"u","n","i","t","s","_","s","t","a","t","u","s">>, "unit_status" >>,
       << <<"u","n","i","t","_","s","t","a","t","u","s">>, "unit_status" >>,
       << <<"s","t","a","t","u","s">>, "unit_status" >>,
       << <<"l","e","j","e","s","t","a","t","u","s">>, "unit_status" >>,
       << <<"u","d","l","e","j","n","i","n","g","s","s","t","a","t","u","s">>, "unit_status" >> >>

END_ROW_KEYWORDS ==
    << <<"t","o","t","a","l" >>,
       <<"s","u","m" >>,
       <<"i"," ","a","l","t" >>,
       <<"i","a","l","t" >>,
       <<"s","a","m","l","e","t" >>,
       <<"s","u","b","t","o","t","a","l" >> >>

UNIT_TYPE_BOLIG ==
    << <<"a","p","a","r","t","m","e","n","t" >>,
       <<"r","e","s","i","d","e","n","t","i","a","l" >>,
       <<"b","o","l","i","g" >>,
       <<"l","e","j","l","i","g","h","e","d" >>,
       <<"v","æ","r","e","l","s","e" >>,
       <<"r","o","o","m" >> >>

UNIT_TYPE_ERHVERV ==
    << <<"c","o","m","m","e","r","c","i","a","l" >>,
       <<"r","e","t","a","i","l" >>,
       <<"o","f","f","i","c","e" >>,
       <<"e","r","h","v","e","r","v" >>,
       <<"k","o","n","t","o","r" >>,
       <<"b","u","t","i","k" >>,
       <<"l","a","g","e","r" >>,
       <<"w","a","r","e","h","o","u","s","e" >> >>

UNIT_TYPE_PARKERING ==
    << <<"p","a","r","k","i","n","g" >>,
       <<"p","a","r","k","e","r","i","n","g" >>,
       <<"p","-","p","l","a","d","s" >>,
       <<"g","a","r","a","g","e" >>,
       <<"c","a","r","p","o","r","t" >> >>

VACANCY_KEYWORDS ==
    << <<"v","a","c","a","n","t" >>,
       <<"l","e","d","i","g" >>,
       <<"t","o","m" >>,
       <<"f","r","a","f","l","y","t","t","e","t" >>,
       <<"e","m","p","t","y" >>,
       <<"a","v","a","i","l","a","b","l","e" >>,
       <<"t","i","l"," ","l","e","j","e" >> >>

(***************************************************************************)
(* Column Mapper                                                           *)
(***************************************************************************)
\* a dict as the sequence of its <<key, value>> items in insertion order
DictHas(dict, key) == \E i \in 1..Len(dict) : dict[i][1] = key

DictGet(dict, key) == dict[CHOOSE i \in 1..Len(dict) : dict[i][1] = key][2]

DictSet(dict, key, value) ==
    IF DictHas(dict, key)
    THEN [i \in 1..Len(dict) |-> IF dict[i][1] = key THEN <<key, value>> ELSE dict[i]]
    ELSE Append(dict, <<key, value>>)

\* the partial-match loop from entry k on: 0 when no entry matches
RECURSIVE PartialMatchFrom(_, _)
PartialMatchFrom(header_lower, k) ==
    IF k > Len(COLUMN_MAPPING) THEN 0
    ELSE IF Contains(header_lower, COLUMN_MAPPING[k][1]) \/ Contains(COLUMN_MAPPING[k][1], header_lower)
    THEN k
    ELSE PartialMatchFrom(header_lower, k + 1)

\* a variant without the exact lookup: the partial-match loop alone
HeaderTagPartialOnly(header_str) ==
    LET k == PartialMatchFrom(Lower(header_str), 1)
    IN IF k = 0 THEN "" ELSE COLUMN_MAPPING[k][2]

\* the tag of one header string, "" when it gets none
HeaderTag(header_str) ==
    LET header_lower == Lower(header_str) IN
    IF DictHas(COLUMN_MAPPING, header_lower) THEN DictGet(COLUMN_MAPPING, header_lower)
    ELSE LET k == PartialMatchFrom(header_lower, 1)
         IN IF k = 0 THEN "" ELSE COLUMN_MAPPING[k][2]

RECURSIVE MapColumnsFrom(_, _)
MapColumnsFrom(headers, mapping) ==
    IF headers = <<>> THEN mapping
    ELSE IF Head(headers) = None THEN MapColumnsFrom(Tail(headers), mapping)
    ELSE LET header_str == Strip(Head(headers))
             tag == HeaderTag(header_str)
         IN MapColumnsFrom(Tail(headers),
                           IF tag = "" THEN mapping ELSE DictSet(mapping, header_str, tag))

map_columns(headers) == MapColumnsFrom(headers, <<>>)

\* [str(c) if c is not None else "" for c in row]
StrCells(row) == [i \in 1..Len(row) |-> IF row[i] = None THEN <<>> ELSE row[i]]

(***************************************************************************)
(* The Column Mapper on its own                                            *)
(***************************************************************************)
MaxHeaderCells == 2

HeaderCells ==
    {<<"L","e","j","n","r",".">>, <<"A","r","e","a","l">>, <<"L","e","j","e">>,
     <<"E","t","a","g","e">>, <<"B","e","m",".">>, <<" ","P","o","s","t","n","r"," ">>,
     <<"P","o","s","t","n","r">>, <<"L","e","j","e","r">>, <<"x">>, <<>>, <<" "," ">>,
     <<" ","A","R","E","A","L"," ","M","2"," ">>, <<"m">>,
     <<"L","e","j","e","m","å","l","s","t","y","p","e">>, <<" ","A","r","e","a","l"," ">>, None}

\* the headers of the specification's example
HeadersExample ==
    <<<<"L","e","j","n","r",".">>, <<"A","r","e","a","l">>, <<"L","e","j","e">>,
      <<"E","t","a","g","e">>, <<"B","e","m",".">>>>

InitMapper ==
    /\ pc = "call"
    /\ arg \in StringsUpTo(HeaderCells, MaxHeaderCells) \cup {HeadersExample}
    /\ ret = NoReturn
    /\ IdlePipeline

MapColumns ==
    /\ pc = "call"
    /\ ret' = map_columns(arg)
    /\ pc' = "return"
    /\ UNCHANGED <<arg, pipelineVars>>

NextMapper == MapColumns

SpecMapper == InitMapper /\ [][NextMapper]_vars

\* the positions of the synonyms that are a substring of h or of which h is one
PartialMatches(h) ==
    {k \in 1..Len(COLUMN_MAPPING) :
        Contains(h, COLUMN_MAPPING[k][1]) \/ Contains(COLUMN_MAPPING[k][1], h)}

\* the tag the rule gives the lower-cased header h, "" when it gives none
ClaimedTag(h) ==
    IF \E k \in 1..Len(COLUMN_MAPPING) : COLUMN_MAPPING[k][1] = h
    THEN COLUMN_MAPPING[CHOOSE k \in 1..Len(COLUMN_MAPPING) : COLUMN_MAPPING[k][1] = h][2]
    ELSE IF PartialMatches(h) = {} THEN ""
    ELSE COLUMN_MAPPING[CHOOSE k \in PartialMatches(h) : \A j \in PartialMatches(h) : k <= j][2]

\* the tag the mapping holds for a header cell, "" when the cell is absent from it
TagGiven(mapping, cell) ==
    IF DictHas(mapping, Strip(cell)) THEN DictGet(mapping, Strip(cell)) ELSE ""

\* C12 as stated: every header cell gets the tag of the synonym its lower-cased
\* text equals, otherwise of the first synonym in declaration order that is a
\* substring of it or of which it is a substring, and is absent from the mapping
\* when there is none; Lejnr., Areal, Leje, Etage, Bem. map to unit_id, sqm,
\* annual_rent, floor, notes
C12_TagFollowsLowerCasedHeader ==
    pc = "return" =>
        /\ \A i \in 1..Len(arg) : arg[i] /= None => TagGiven(ret, arg[i]) = ClaimedTag(Lower(arg[i]))
        /\ arg = HeadersExample =>
              [i \in 1..5 |-> TagGiven(ret, arg[i])] = <<"unit_id", "sqm", "annual_rent", "floor", "notes">>

\* C12 amended: the rule applies to the header trimmed of surrounding whitespace
\* and lower-cased, and the mapping is keyed by the trimmed header; nothing but
\* the trimmed headers is a key of the mapping
C12_TagFollowsTrimmedHeader ==
    pc = "return" =>
        /\ \A i \in 1..Len(arg) :
              arg[i] /= None => TagGiven(ret, arg[i]) = ClaimedTag(Lower(Strip(arg[i])))
        /\ \A k \in 1..Len(ret) : \E i \in 1..Len(arg) : arg[i] /= None /\ ret[k][1] = Strip(arg[i])
        /\ arg = HeadersExample =>
              [i \in 1..5 |-> TagGiven(ret, arg[i])] = <<"unit_id", "sqm", "annual_rent", "floor", "notes">>

\* a padded header that equals a synonym once trimmed gets that synonym's tag,
\* not the tag of the first partial match, and another header gets no tag
C12_Witness ==
    /\ pc = "return"
    /\ \E i \in 1..Len(arg) :
          /\ arg[i] /= None
          /\ Strip(arg[i]) /= arg[i]
          /\ TagGiven(ret, arg[i]) = "postal_code"
          /\ ClaimedTag(Lower(arg[i])) = "unit_id"
    /\ \E i \in 1..Len(arg) : arg[i] /= None /\ TagGiven(ret, arg[i]) = ""

\* the specification's five headers are mapped
HeadersExampleMapped == pc = "return" /\ arg = HeadersExample /\ Len(ret) = 5

(***************************************************************************)
(* Row Categorizer                                                         *)
(***************************************************************************)
AnyKeywordIn(val, keywords) == \E k \in 1..Len(keywords) : Contains(val, keywords[k])

\* a variant that tests the erhverv keywords before the bolig keywords
CategorizeErhvervFirst(unit_type_value) ==
    IF unit_type_value = <<>> THEN "andet"
    ELSE LET val_lower == Strip(Lower(unit_type_value)) IN
         IF AnyKeywordIn(val_lower, UNIT_TYPE_ERHVERV) THEN "erhverv"
         ELSE IF AnyKeywordIn(val_lower, UNIT_TYPE_BOLIG) THEN "bolig"
         ELSE IF AnyKeywordIn(val_lower, UNIT_TYPE_PARKERING) THEN "parkering"
         ELSE "andet"

categorize_unit_type(unit_type_value) ==
    IF unit_type_value = <<>> THEN "andet"
    ELSE LET val_lower == Strip(Lower(unit_type_value)) IN
         IF AnyKeywordIn(val_lower, UNIT_TYPE_BOLIG) THEN "bolig"
         ELSE IF AnyKeywordIn(val_lower, UNIT_TYPE_ERHVERV) THEN "erhverv"
         ELSE IF AnyKeywordIn(val_lower, UNIT_TYPE_PARKERING) THEN "parkering"
         ELSE "andet"

is_unit_vacant(status_value) ==
    IF status_value = <<>> THEN FALSE
    ELSE AnyKeywordIn(Strip(Lower(status_value)), VACANCY_KEYWORDS)

(***************************************************************************)
(* Aggregator                                                              *)
(***************************************************************************)
Categories == {"bolig", "erhverv", "parkering", "andet"}

\* standard_to_idx.get(tag): the 0-based index of the last column whose name is
\* a key mapped to tag, -1 for None
StandardIdx(cols, mapping, tag) ==
    LET hits == {i \in 1..Len(cols) : DictHas(mapping, cols[i]) /\ DictGet(mapping, cols[i]) = tag}
    IN IF hits = {} THEN -1 ELSE (CHOOSE i \in hits : \A j \in hits : j <= i) - 1

\* the cells of the example rows and headers, converted once
ExampleCells ==
    UNION {{r[i] : i \in 1..Len(r)} : r \in ExampleRows} \cup {<<>>}

ExampleCellNumber == [c \in ExampleCells |-> convert_danish_number(c)]

CellNumber(c) == IF c \in ExampleCells THEN ExampleCellNumber[c] ELSE convert_danish_number(c)

EmptyStats ==
    [total_sqm |-> Zero, total_rent |-> Zero, total_vacant |-> 0,
     units_with_sqm |-> 0, units_with_rent |-> 0,
     rent_per_sqm_sum |-> Zero, rent_per_sqm_count |-> 0,
     unit_type_breakdown |-> [c \in Categories |-> [count |-> 0, sqm |-> Zero, rent |-> Zero, vacant |-> 0]],
     rows_missing_sqm |-> <<>>, rows_missing_rent |-> <<>>, rows_suspicious |-> <<>>]

\* if sqm_value is not None and sqm_value > 0
CountsAsSqm(sqm_value) == Positive(sqm_value)

\* a variant in which a rent of 0 counts as a rent
CountsZeroAsRent(rent_value) == rent_value.ok /\ rent_value.n >= 0

\* if rent_value is not None and rent_value > 0
CountsAsRent(rent_value) == Positive(rent_value)

\* a variant in which a row with a rent of 0 enters the average
CountsZeroRentForAverage(sqm_value, rent_value) ==
    Positive(sqm_value) /\ rent_value.ok /\ rent_value.n >= 0

\* the condition under which a row's ratio enters the average
CountsForAverage(sqm_value, rent_value) == Positive(sqm_value) /\ Positive(rent_value)

\* one iteration of the loop over rows
StatsStep(acc, row, sqm_idx, rent_idx, unit_type_idx, unit_status_idx) ==
    LET raw == row.raw
        has_sqm == sqm_idx /= -1 /\ sqm_idx < Len(raw)
        has_rent == rent_idx /= -1 /\ rent_idx < Len(raw)
        sqm_value == IF has_sqm THEN CellNumber(raw[sqm_idx + 1]) ELSE NoneNum
        rent_value == IF has_rent THEN CellNumber(raw[rent_idx + 1]) ELSE NoneNum
        sqm_ok == has_sqm /\ CountsAsSqm(sqm_value)
        rent_ok == has_rent /\ CountsAsRent(rent_value)
        category == IF unit_type_idx /= -1 /\ unit_type_idx < Len(raw)
                    THEN categorize_unit_type(raw[unit_type_idx + 1])
                    ELSE "andet"
        vacant == unit_status_idx /= -1 /\ unit_status_idx < Len(raw)
                  /\ is_unit_vacant(raw[unit_status_idx + 1])
        old == acc.unit_type_breakdown[category]
        new == [count |-> old.count + 1,
                sqm |-> IF Positive(sqm_value) THEN Add(old.sqm, sqm_value) ELSE old.sqm,
                rent |-> IF Positive(rent_value) THEN Add(old.rent, rent_value) ELSE old.rent,
                vacant |-> IF vacant THEN old.vacant + 1 ELSE old.vacant]
        averaged == CountsForAverage(sqm_value, rent_value)
    IN [total_sqm |-> IF sqm_ok THEN Add(acc.total_sqm, sqm_value) ELSE acc.total_sqm,
        units_with_sqm |-> IF sqm_ok THEN acc.units_with_sqm + 1 ELSE acc.units_with_sqm,
        rows_missing_sqm |-> IF sqm_ok THEN acc.rows_missing_sqm
                             ELSE Append(acc.rows_missing_sqm, row.row_num),
        total_rent |-> IF rent_ok THEN Add(acc.total_rent, rent_value) ELSE acc.total_rent,
        units_with_rent |-> IF rent_ok THEN acc.units_with_rent + 1 ELSE acc.units_with_rent,
        rows_missing_rent |-> IF rent_ok THEN acc.rows_missing_rent
                              ELSE Append(acc.rows_missing_rent, row.row_num),
        rows_suspicious |-> IF has_rent /\ ~rent_ok /\ rent_value = Zero /\ Positive(sqm_value)
                            THEN Append(acc.rows_suspicious, row.row_num)
                            ELSE acc.rows_suspicious,
        unit_type_breakdown |-> [acc.unit_type_breakdown EXCEPT ![category] = new],
        total_vacant |-> IF vacant THEN acc.total_vacant + 1 ELSE acc.total_vacant,
        rent_per_sqm_sum |-> IF averaged THEN Add(acc.rent_per_sqm_sum, Div(rent_value, sqm_value))
                             ELSE acc.rent_per_sqm_sum,
        rent_per_sqm_count |-> IF averaged THEN acc.rent_per_sqm_count + 1
                               ELSE acc.rent_per_sqm_count]

\* the loop over rows; the accumulator is bound to its value once per iteration
RECURSIVE StatsLoop(_, _, _, _, _, _)
StatsLoop(acc, rows, sqm_idx, rent_idx, unit_type_idx, unit_status_idx) ==
    IF rows = <<>> THEN acc
    ELSE CHOOSE result \in
             {StatsLoop(next, Tail(rows), sqm_idx, rent_idx, unit_type_idx, unit_status_idx) :
                next \in {StatsStep(acc, Head(rows), sqm_idx, rent_idx, unit_type_idx, unit_status_idx)}} :
             TRUE

\* avg_rent_per_sqm before rounding
AverageOf(rent_per_sqm_sum, rent_per_sqm_count) ==
    IF rent_per_sqm_count > 0 THEN Div(rent_per_sqm_sum, Num(rent_per_sqm_count, 1)) ELSE Zero

\* the pair (summary, data_quality) as one record
SummaryOf(acc, rows, cols, mapping) ==
    [total_units |-> Len(rows),
     total_sqm |-> Round2(acc.total_sqm),
     total_annual_rent |-> Round2(acc.total_rent),
     avg_rent_per_sqm |-> Round2(AverageOf(acc.rent_per_sqm_sum, acc.rent_per_sqm_count)),
     units_with_rent |-> acc.units_with_rent,
     units_with_sqm |-> acc.units_with_sqm,
     total_vacant |-> acc.total_vacant,
     unit_type_breakdown |->
         [c \in Categories |->
             [count |-> acc.unit_type_breakdown[c].count,
              sqm |-> Round2(acc.unit_type_breakdown[c].sqm),
              rent |-> Round2(acc.unit_type_breakdown[c].rent),
              vacant |-> acc.unit_type_breakdown[c].vacant]],
     rows_missing_sqm |-> acc.rows_missing_sqm,
     rows_missing_rent |-> acc.rows_missing_rent,
     rows_suspicious |-> acc.rows_suspicious,
     unmapped_columns |->
         SelectSeq(cols, LAMBDA col : col /= <<>> /\ Strip(col) /= <<>> /\ ~DictHas(mapping, col))]

calculate_summary_stats(rows, cols, mapping) ==
    CHOOSE result \in
        {SummaryOf(acc, rows, cols, mapping) :
            acc \in {StatsLoop(EmptyStats, rows,
                               StandardIdx(cols, mapping, "sqm"),
                               StandardIdx(cols, mapping, "annual_rent"),
                               StandardIdx(cols, mapping, "unit_type"),
                               StandardIdx(cols, mapping, "unit_status"))}} :
        TRUE

(***************************************************************************)
(* The Aggregator on its own                                               *)
(***************************************************************************)
MaxAggRows == 3

AggHeaders == {RowHeader, RowHeaderShort, RowHeaderNoSqm, RowHeaderTyped}

AggRows == {RowData1, RowData2, RowData3, RowData4, RowData5, RowShort, RowTyped1, RowTyped2}

\* the rows of a sheet whose header is its first row, as parse_excel emits them
EmittedRows(raws) ==
    [i \in 1..Len(raws) |->
        [raw |-> StrCells(raws[i]), source |-> "Sheet1", row_num |-> i + 1, rent_type |-> "none"]]

InitAggregate ==
    /\ pc = "call"
    /\ \E header \in AggHeaders, raws \in StringsUpTo(AggRows, MaxAggRows) :
          arg = [rows |-> EmittedRows(raws), columns |-> StrCells(header),
                 column_mapping |-> map_columns(header)]
    /\ ret = NoReturn
    /\ IdlePipeline

Aggregate ==
    /\ pc = "call"
    /\ ret' = calculate_summary_stats(arg.rows, arg.columns, arg.column_mapping)
    /\ pc' = "return"
    /\ UNCHANGED <<arg, pipelineVars>>

NextAggregate == Aggregate

SpecAggregate == InitAggregate /\ [][NextAggregate]_vars

\* the normalized value of a row's cell under tag, null when the tag has no
\* column or the row is too short
TagValue(a, i, tag) ==
    LET idx == StandardIdx(a.columns, a.column_mapping, tag)
        raw == a.rows[i].raw
    IN IF idx = -1 \/ idx >= Len(raw) THEN NoneNum ELSE convert_danish_number(raw[idx + 1])

\* the rows whose value under tag is strictly positive
PositiveRows(a, tag) == {i \in 1..Len(a.rows) : Positive(TagValue(a, i, tag))}

RECURSIVE SumValues(_, _, _)
SumValues(a, tag, S) ==
    IF S = {} THEN Zero
    ELSE LET i == CHOOSE i \in S : TRUE
         IN Add(TagValue(a, i, tag), SumValues(a, tag, S \ {i}))

\* the row_num of the rows outside S, in row order
RECURSIVE RowNumsOutside(_, _)
RowNumsOutside(rows, S) ==
    IF rows = <<>> THEN <<>>
    ELSE RowNumsOutside(SubSeq(rows, 1, Len(rows) - 1), S)
         \o (IF Len(rows) \in S THEN <<>> ELSE <<rows[Len(rows)].row_num>>)

\* C3: the totals (as emitted, rounded to 2 decimals) are the sums over exactly
\* the rows with a strictly positive value; each row is either counted in
\* units_with_sqm or listed in rows_missing_sqm, never both, and likewise for
\* rent (a rent of 0 is listed); without the tag every row is listed
C3_TotalsAndMissingRows ==
    pc = "return" =>
        /\ ret.total_sqm = Round2(SumValues(arg, "sqm", PositiveRows(arg, "sqm")))
        /\ ret.total_annual_rent = Round2(SumValues(arg, "annual_rent", PositiveRows(arg, "annual_rent")))
        /\ ret.units_with_sqm = Cardinality(PositiveRows(arg, "sqm"))
        /\ ret.units_with_rent = Cardinality(PositiveRows(arg, "annual_rent"))
        /\ ret.rows_missing_sqm = RowNumsOutside(arg.rows, PositiveRows(arg, "sqm"))
        /\ ret.rows_missing_rent = RowNumsOutside(arg.rows, PositiveRows(arg, "annual_rent"))
        /\ ret.units_with_sqm + Len(ret.rows_missing_sqm) = Len(arg.rows)
        /\ ret.units_with_rent + Len(ret.rows_missing_rent) = Len(arg.rows)
        /\ \A i \in 1..Len(arg.rows) :
              TagValue(arg, i, "annual_rent") = Zero =>
                  \E k \in 1..Len(ret.rows_missing_rent) : ret.rows_missing_rent[k] = arg.rows[i].row_num
        /\ StandardIdx(arg.columns, arg.column_mapping, "sqm") = -1 =>
              ret.rows_missing_sqm = [i \in 1..Len(arg.rows) |-> arg.rows[i].row_num]
        /\ StandardIdx(arg.columns, arg.column_mapping, "annual_rent") = -1 =>
              ret.rows_missing_rent = [i \in 1..Len(arg.rows) |-> arg.rows[i].row_num]

\* the scenario of the specification: header Lejnr/Areal/Leje with the rows
\* (A1, 50, 10.000), (A2, 0, 0), (A3, "", 5.000)
C3_Witness ==
    /\ pc = "return"
    /\ arg.columns = RowHeader
    /\ [i \in 1..Len(arg.rows) |-> arg.rows[i].raw] = <<RowData1, RowData2, RowData3>>
    /\ ret.total_sqm = Lit(50, 1)
    /\ ret.total_annual_rent = Lit(15000, 1)
    /\ ret.rows_missing_sqm = <<3, 4>>
    /\ ret.rows_missing_rent = <<3>>
    /\ ret.avg_rent_per_sqm = Lit(200, 1)

\* a header without a sqm column: every row is listed as missing sqm
NoSqmColumnAllMissing ==
    /\ pc = "return"
    /\ StandardIdx(arg.columns, arg.column_mapping, "sqm") = -1
    /\ Len(arg.rows) >= 2
    /\ Len(ret.rows_missing_sqm) = Len(arg.rows)

\* the rows whose sqm and rent are both strictly positive
RatioRows(a) == PositiveRows(a, "sqm") \cap PositiveRows(a, "annual_rent")

RECURSIVE SumRatios(_, _)
SumRatios(a, S) ==
    IF S = {} THEN Zero
    ELSE LET i == CHOOSE i \in S : TRUE
         IN Add(Div(TagValue(a, i, "annual_rent"), TagValue(a, i, "sqm")), SumRatios(a, S \ {i}))

MeanOfRatios(a) ==
    IF RatioRows(a) = {} THEN Zero
    ELSE Div(SumRatios(a, RatioRows(a)), Num(Cardinality(RatioRows(a)), 1))

\* C4: avg_rent_per_sqm (as emitted, rounded to 2 decimals) is the mean of the
\* rent/sqm ratios of exactly the rows with both values strictly positive, and
\* 0 when there is no such row
C4_AverageIsMeanOfRowRatios ==
    pc = "return" => ret.avg_rent_per_sqm = Round2(MeanOfRatios(arg))

\* several rows qualify, a row with only one positive value adds to a total, and
\* the mean of the ratios differs from the ratio of the totals
C4_Witness ==
    /\ pc = "return"
    /\ Cardinality(RatioRows(arg)) >= 2
    /\ PositiveRows(arg, "annual_rent") \ PositiveRows(arg, "sqm") /= {}
    /\ ret.avg_rent_per_sqm /= Round2(Div(ret.total_annual_rent, ret.total_sqm))
    /\ ret.avg_rent_per_sqm /= Zero

(***************************************************************************)
(* The breakdown by category                                               *)
(***************************************************************************)
RowTyped3 ==
    <<<<"B","3">>, <<"3","0">>, <<"6",".","0","0","0">>, <<"E","r","h","v","e","r","v","/","B","o","l","i","g">>, <<"U","d","l","e","j","e","t">>>>

RowTyped4 ==
    <<<<"B","4">>, <<"1","2">>, <<"1",".","2","0","0">>, <<" ","G","A","R","A","G","E"," ">>, <<"T","o","m">>>>

RowTyped5 ==
    <<<<"B","5">>, <<"5">>, <<"5","0","0">>, <<"D","e","p","o","t">>, <<"U","d","l","e","j","e","t">>>>

RowTyped6 ==
    <<<<"B","6">>, <<"2","5">>, <<"2",".","5","0","0">>, <<>>, <<"U","d","l","e","j","e","t">>>>

TypedHeaders == {RowHeaderTyped, RowHeader}

TypedRows == {RowTyped1, RowTyped2, RowTyped3, RowTyped4, RowTyped5, RowTyped6, RowShort}

InitBreakdown ==
    /\ pc = "call"
    /\ \E header \in TypedHeaders, raws \in StringsUpTo(TypedRows, MaxAggRows) :
          arg = [rows |-> EmittedRows(raws), columns |-> StrCells(header),
                 column_mapping |-> map_columns(header)]
    /\ ret = NoReturn
    /\ IdlePipeline

SpecBreakdown == InitBreakdown /\ [][NextAggregate]_vars

\* the keyword groups in the stated priority order
KeywordGroups ==
    <<[category |-> "bolig", keywords |-> UNIT_TYPE_BOLIG],
      [category |-> "erhverv", keywords |-> UNIT_TYPE_ERHVERV],
      [category |-> "parkering", keywords |-> UNIT_TYPE_PARKERING]>>

\* the groups with a keyword that is a substring of the lower-cased value
MatchingGroups(value) ==
    {g \in 1..Len(KeywordGroups) :
        \E k \in 1..Len(KeywordGroups[g].keywords) : Contains(Lower(value), KeywordGroups[g].keywords[k])}

\* the unit_type value of a row, empty when the tag has no column or the row
\* does not reach it
UnitTypeValue(a, i) ==
    LET idx == StandardIdx(a.columns, a.column_mapping, "unit_type")
        raw == a.rows[i].raw
    IN IF idx = -1 \/ idx >= Len(raw) THEN <<>> ELSE raw[idx + 1]

ClaimedCategory(a, i) ==
    LET groups == MatchingGroups(UnitTypeValue(a, i))
    IN IF groups = {} THEN "andet"
       ELSE KeywordGroups[CHOOSE g \in groups : \A h \in groups : g <= h].category

RowsIn(a, c) == {i \in 1..Len(a.rows) : ClaimedCategory(a, i) = c}

\* C16: each row is counted in exactly one category, the first of bolig,
\* erhverv, parkering with a keyword inside the lower-cased unit_type value and
\* andet otherwise (empty or unmatched value, no unit_type column); the four
\* counts sum to total_units
C16_EachRowInOneCategory ==
    pc = "return" =>
        /\ \A c \in Categories : ret.unit_type_breakdown[c].count = Cardinality(RowsIn(arg, c))
        /\ ret.unit_type_breakdown["bolig"].count + ret.unit_type_breakdown["erhverv"].count
             + ret.unit_type_breakdown["parkering"].count + ret.unit_type_breakdown["andet"].count
           = ret.total_units
        /\ ret.total_units = Len(arg.rows)

\* a value with keywords of two groups, a parking value and an unmatched value
C16_Witness ==
    /\ pc = "return"
    /\ [i \in 1..Len(arg.rows) |-> arg.rows[i].raw] = <<RowTyped3, RowTyped4, RowTyped5>>
    /\ Cardinality(MatchingGroups(UnitTypeValue(arg, 1))) = 2
    /\ ret.unit_type_breakdown["bolig"].count = 1
    /\ ret.unit_type_breakdown["erhverv"].count = 0
    /\ ret.unit_type_breakdown["parkering"].count = 1
    /\ ret.unit_type_breakdown["andet"].count = 1

\* without a unit_type column every row is counted under andet
NoTypeColumnAllAndet ==
    /\ pc = "return"
    /\ StandardIdx(arg.columns, arg.column_mapping, "unit_type") = -1
    /\ Len(arg.rows) = MaxAggRows
    /\ \E i \in 1..Len(arg.rows) : arg.rows[i].raw = RowTyped1
    /\ ret.unit_type_breakdown["andet"].count = MaxAggRows

\* an empty unit_type value is counted under andet
EmptyTypeIsAndet ==
    /\ pc = "return"
    /\ arg.columns = RowHeaderTyped
    /\ [i \in 1..Len(arg.rows) |-> arg.rows[i].raw] = <<RowTyped6>>
    /\ ret.unit_type_breakdown["andet"].count = 1

(***************************************************************************)
(* Row segmentation                                                        *)
(***************************************************************************)
\* sum(1 for c in raw_data if c.strip())
NonEmptyCount(raw_data) == Cardinality({i \in 1..Len(raw_data) : Strip(raw_data[i]) /= <<>>})

is_end_row(row) ==
    IF row = <<>> THEN TRUE
    ELSE IF \A i \in 1..Len(row) : row[i] = None \/ Strip(row[i]) = <<>> THEN TRUE
    ELSE \E i \in 1..(IF Len(row) < 3 THEN Len(row) ELSE 3) :
            row[i] /= None /\ AnyKeywordIn(CellText(row[i]), END_ROW_KEYWORDS)

\* "none" stands for None
get_rent_type_from_sheet(sheet_name) ==
    LET name_lower == Lower(sheet_name) IN
    IF Contains(name_lower, <<"p","a","r","k","e","r","i","n","g">>)
       \/ Contains(name_lower, <<"p","-","p","l","a","d","s">>) THEN "parkering"
    ELSE IF Contains(name_lower, <<"e","r","h","v","e","r","v">>)
            \/ Contains(name_lower, <<"c","o","m","m","e","r","c","i","a","l">>) THEN "erhverv"
    ELSE "none"

\* a variant that skips an end row and goes on with the rows after it
RECURSIVE SheetRowsSkipping(_, _, _, _, _)
SheetRowsSkipping(rows_after_header, row_offset, header_idx, sheet_name, rent_type) ==
    IF row_offset >= Len(rows_after_header) THEN <<>>
    ELSE LET row == rows_after_header[row_offset + 1]
             raw_data == StrCells(row)
             rest == SheetRowsSkipping(rows_after_header, row_offset + 1, header_idx, sheet_name, rent_type)
         IN IF is_end_row(row) \/ NonEmptyCount(raw_data) < 2 THEN rest
            ELSE <<[raw |-> raw_data, source |-> sheet_name,
                    row_num |-> header_idx + row_offset + 2, rent_type |-> rent_type]>> \o rest

\* the loop over data_rows of one sheet from row_offset on, with its break
RECURSIVE SheetRowsFrom(_, _, _, _, _)
SheetRowsFrom(rows_after_header, row_offset, header_idx, sheet_name, rent_type) ==
    IF row_offset >= Len(rows_after_header) THEN <<>>
    ELSE LET row == rows_after_header[row_offset + 1]
             raw_data == StrCells(row)
             rest == SheetRowsFrom(rows_after_header, row_offset + 1, header_idx, sheet_name, rent_type)
         IN IF is_end_row(row) THEN <<>>
            ELSE IF NonEmptyCount(raw_data) < 2 THEN rest
            ELSE <<[raw |-> raw_data, source |-> sheet_name,
                    row_num |-> header_idx + row_offset + 2, rent_type |-> rent_type]>> \o rest

(***************************************************************************)
(* parse_rent_roll                                                         *)
(***************************************************************************)
\* "invalid_file_type" stands for the ParseError the function raises
detect_file_type(ext) ==
    LET e == Lower(ext) IN
    IF e \in {<<".","x","l","s","x">>, <<".","x","l","s">>} THEN "excel"
    ELSE IF e = <<".","p","d","f">> THEN "pdf"
    ELSE "invalid_file_type"

\* the suffixes of the paths tried
PathExts ==
    {<<".","x","l","s","x">>, <<".","X","L","S">>, <<".","p","d","f">>,
     <<".","d","o","c","x">>, <<>>}

Init ==
    /\ pc = "parse_rent_roll"
    /\ path \in [ext : PathExts, exists : BOOLEAN]
    /\ error = "none"
    /\ calls = <<>>
    /\ confidence = "high"
    /\ parse_warnings = <<>>
    /\ header_found = FALSE
    /\ header_row = 0
    /\ columns = <<>>
    /\ column_mapping = <<>>
    /\ all_rows = <<>>
    /\ workbook = <<>>
    /\ sheet_names = <<>>
    /\ sheet_idx = 0
    /\ sheets_used = <<>>
    /\ pages = 0
    /\ pdf = <<>>
    /\ all_tables = <<>>
    /\ table_idx = 0
    /\ seen_headers = {}
    /\ data_rows = <<>>
    /\ ocr_used = FALSE
    /\ returned = NoReturn
    /\ arg = <<>>
    /\ ret = NoReturn

excelVars == <<workbook, sheet_names, sheet_idx, sheets_used>>

pdfVars == <<pages, pdf, all_tables, table_idx, seen_headers, data_rows, ocr_used>>

resultVars == <<confidence, parse_warnings, header_found, header_row, columns,
                column_mapping, all_rows, returned>>

ParseRentRoll ==
    /\ pc = "parse_rent_roll"
    /\ IF ~path.exists
       THEN pc' = "raised" /\ error' = "file_not_found"
       ELSE LET file_type == detect_file_type(path.ext) IN
            IF file_type = "excel" THEN pc' = "parse_excel" /\ error' = error
            ELSE IF file_type = "pdf" THEN pc' = "parse_pdf" /\ error' = error
            ELSE pc' = "raised" /\ error' = "invalid_file_type"
    /\ UNCHANGED <<path, calls, resultVars, excelVars, pdfVars, arg, ret>>

(***************************************************************************)
(* parse_excel                                                             *)
(***************************************************************************)
MaxSheets == 3

\* sheet names are distinct within a workbook
SheetNamePool ==
    << <<"B","o","l","i","g","e","r">>, <<"P","-","p","l","a","d","s","e","r">>,
       <<"E","r","h","v","e","r","v">>, <<"A","r","k","4">>, <<"A","r","k","5">> >>

SheetGood == <<RowHeader, RowData1, RowData2, RowData3>>

SheetTooShort == <<RowHeader, RowData1>>

SheetNoHeader == <<RowData1, RowData2, RowData4>>

SheetOnlyTotal == <<RowHeader, RowTotal, RowData1>>

SheetTitled == <<RowSparse, RowHeader, RowData4, RowSparse, RowData5, RowEmpty, RowData1>>

\* what reading one sheet gives: its rows, or an exception
SheetPool ==
    {[rows |-> r, fails |-> FALSE] :
        r \in {SheetGood, SheetTooShort, SheetNoHeader, SheetOnlyTotal, SheetTitled}}
    \cup {[rows |-> <<>>, fails |-> TRUE]}

Workbooks == {w \in StringsUpTo(SheetPool, MaxSheets) : w /= <<>>}

\* load_workbook / open_workbook and its except clause
ExcelOpen ==
    /\ pc = "parse_excel"
    /\ calls' = Append(calls, "load_workbook")
    /\ \/ /\ \E error_type \in {"password_protected", "corrupted_file"} : error' = error_type
          /\ pc' = "raised"
          /\ UNCHANGED excelVars
       \/ /\ \E w \in Workbooks :
                /\ workbook' = w
                /\ sheet_names' = SubSeq(SheetNamePool, 1, Len(w))
          /\ pc' = "excel_sheets"
          /\ UNCHANGED <<error, sheet_idx, sheets_used>>
    /\ UNCHANGED <<path, resultVars, pdfVars, arg, ret>>

\* a variant in which a sheet that is read without failure restores the grade
ConfidenceRestored(conf, failed) == IF failed THEN "medium" ELSE "high"

\* a variant in which a failing sheet leaves the grade as it is
ConfidenceKept(conf, failed) == conf

\* result["confidence"] after one iteration of the loop over sheets
ConfidenceAfterSheet(conf, failed) == IF failed THEN "medium" ELSE conf

\* one iteration of the loop over sheet_names, its try/except included
ExcelSheet ==
    /\ pc = "excel_sheets"
    /\ sheet_idx < Len(sheet_names)
    /\ \E sheet_name \in {sheet_names[sheet_idx + 1]}, sheet \in {workbook[sheet_idx + 1]} :
       \E located \in {find_header_row(sheet.rows, MaxHeaderRows)} :
          /\ confidence' = ConfidenceAfterSheet(confidence, sheet.fails)
          /\ IF sheet.fails
             THEN /\ parse_warnings' = Append(parse_warnings, <<"error", sheet_name>>)
                  /\ UNCHANGED <<header_found, header_row, columns, column_mapping, all_rows, sheets_used>>
             ELSE IF Len(sheet.rows) < 3
             THEN /\ parse_warnings' = Append(parse_warnings, <<"skipped - insufficient rows", sheet_name>>)
                  /\ UNCHANGED <<header_found, header_row, columns, column_mapping, all_rows, sheets_used>>
             ELSE IF ~located.found
             THEN /\ parse_warnings' = Append(parse_warnings, <<"skipped - no header found", sheet_name>>)
                  /\ UNCHANGED <<header_found, header_row, columns, column_mapping, all_rows, sheets_used>>
             ELSE /\ IF ~header_found
                     THEN /\ header_row' = located.idx + 1
                          /\ columns' = StrCells(located.row)
                          /\ column_mapping' = map_columns(located.row)
                          /\ header_found' = TRUE
                     ELSE UNCHANGED <<header_found, header_row, columns, column_mapping>>
                  /\ \E sheet_rows \in
                         {SheetRowsFrom(SubSeq(sheet.rows, located.idx + 2, Len(sheet.rows)), 0,
                                        located.idx, sheet_name, get_rent_type_from_sheet(sheet_name))} :
                        /\ all_rows' = all_rows \o sheet_rows
                        /\ IF Len(sheet_rows) > 0
                           THEN /\ sheets_used' = Append(sheets_used, sheet_name)
                                /\ UNCHANGED parse_warnings
                           ELSE /\ parse_warnings' = Append(parse_warnings, <<"skipped - no data rows", sheet_name>>)
                                /\ UNCHANGED sheets_used
    /\ sheet_idx' = sheet_idx + 1
    /\ UNCHANGED <<pc, path, error, calls, workbook, sheet_names, returned, pdfVars, arg, ret>>

\* a variant that tests for rows before it tests for a header
OutcomeRowsFirst(found, rows) ==
    IF rows = <<>> THEN "no_data_found"
    ELSE IF ~found THEN "no_header_found"
    ELSE "none"

\* the two raises after the loop: the error_type raised, "none" when neither
Outcome(found, rows) ==
    IF ~found THEN "no_header_found"
    ELSE IF rows = <<>> THEN "no_data_found"
    ELSE "none"

\* result as returned: rows, total_rows, summary and data_quality
ResultOf(rows, cols, mapping) ==
    [total_rows |-> Len(rows), rows |-> rows,
     stats |-> calculate_summary_stats(rows, cols, mapping)]

\* the code after the loop over sheets
ExcelFinish ==
    /\ pc = "excel_sheets"
    /\ sheet_idx = Len(sheet_names)
    /\ error' = Outcome(header_found, all_rows)
    /\ IF error' = "none"
       THEN /\ returned' = ResultOf(all_rows, columns, column_mapping)
            /\ pc' = "return"
       ELSE /\ returned' = returned
            /\ pc' = "raised"
    /\ UNCHANGED <<path, calls, confidence, parse_warnings, header_found, header_row,
                   columns, column_mapping, all_rows, excelVars, pdfVars, arg, ret>>

(***************************************************************************)
(* extract_tables_with_ocr                                                 *)
(***************************************************************************)
\* the length of the run of whitespace that starts at position i of line
RECURSIVE RunLen(_, _)
RunLen(line, i) ==
    IF i > Len(line) \/ line[i] \notin Whitespace THEN 0 ELSE 1 + RunLen(line, i + 1)

\* re.split(r'\s{2,}|\t', line) from position i on, cell being the piece so far
RECURSIVE SplitFrom(_, _, _)
SplitFrom(line, i, cell) ==
    IF i > Len(line) THEN <<cell>>
    ELSE IF RunLen(line, i) >= 2 THEN <<cell>> \o SplitFrom(line, i + RunLen(line, i), <<>>)
    ELSE IF line[i] = "\t" THEN <<cell>> \o SplitFrom(line, i + 1, <<>>)
    ELSE SplitFrom(line, i + 1, Append(cell, line[i]))

\* cells = [c.strip() for c in cells if c.strip()]
LineCells(line) ==
    LET pieces == SplitFrom(line, 1, <<>>)
        stripped == [k \in 1..Len(pieces) |-> Strip(pieces[k])]
    IN SelectSeq(stripped, LAMBDA c : c /= <<>>)

\* the loop over the lines of one page
RECURSIVE TextRows(_)
TextRows(lines) ==
    IF lines = <<>> THEN <<>>
    ELSE LET cells == IF Strip(Head(lines)) /= <<>> THEN LineCells(Head(lines)) ELSE <<>>
         IN (IF cells /= <<>> THEN <<cells>> ELSE <<>>) \o TextRows(Tail(lines))

TextTable ==
    << <<"L","e","j","n","r"," "," ","A","r","e","a","l"," "," ","L","e","j","e">>,
       <<" "," "," ">>,
       <<"A","1"," "," ","5","0"," "," ","1","0",".","0","0","0">>,
       <<"A","4","\t","3","\t","1","0","0">> >>

TextNoHeader ==
    << <<"A","5"," ","0",",","1","2","5"," "," "," ","-","5">>, <<"x">> >>

TextBlank == << <<" "," "," ">> >>

\* what recognizing one page image gives: its lines of text, or an exception
OcrPool ==
    {[lines |-> t, fails |-> FALSE] : t \in {TextTable, TextNoHeader, TextBlank}}
    \cup {[lines |-> <<>>, fails |-> TRUE]}

\* the loop over images from page page_num on: [tables, warnings]
RECURSIVE OcrPagesFrom(_, _)
OcrPagesFrom(images, page_num) ==
    IF page_num > Len(images) THEN [tables |-> <<>>, warnings |-> <<>>]
    ELSE LET image == images[page_num]
             rest == OcrPagesFrom(images, page_num + 1)
             rows == TextRows(image.lines)
         IN IF image.fails
            THEN [tables |-> rest.tables,
                  warnings |-> <<<<"OCR failed for page", page_num>>>> \o rest.warnings]
            ELSE IF rows /= <<>>
            THEN [tables |-> <<[page |-> page_num, rows |-> rows]>> \o rest.tables,
                  warnings |-> rest.warnings]
            ELSE rest

(***************************************************************************)
(* parse_pdf                                                               *)
(***************************************************************************)
MaxPages == 2

TableMain == <<RowHeader, RowData1, RowTotal, RowData4>>

TableMore == <<RowData5, RowData1>>

TableRepeat == <<RowHeader, RowData4, RowHeader, RowData5>>

TableOneRow == <<RowHeader>>

\* a header whose last cell holds a space, repeated among the data rows
RowHeaderPadded ==
    <<<<"L","e","j","n","r">>, <<"A","r","e","a","l">>, <<"L","e","j","e">>, <<" ">>>>

TablePadded == <<RowHeaderPadded, RowData1, RowHeaderPadded, RowData4>>

\* the tables extract_tables() yields for one page
PagePool ==
    {<<>>, <<TableOneRow>>, <<TableMain>>, <<TableMore>>, <<TableMain, TableMore>>,
     <<TableRepeat>>, <<TableMore, TableRepeat>>, <<TablePadded>>}

Pdfs == {d \in StringsUpTo(PagePool, MaxPages) : d /= <<>>}

\* a variant that keeps every table the extractor yields
KeepsAnyTable(table) == table /= <<>>

\* if table and len(table) > 1
KeepsTable(table) == table /= <<>> /\ Len(table) > 1

\* the loop over the tables of one page
PageTables(tables, page_num) ==
    LET kept == SelectSeq(tables, KeepsTable)
    IN [k \in 1..Len(kept) |-> [page |-> page_num, rows |-> kept[k]]]

\* the loop over pdf.pages from page page_num on
RECURSIVE ExtractedFrom(_, _)
ExtractedFrom(doc, page_num) ==
    IF page_num > Len(doc) THEN <<>>
    ELSE PageTables(doc[page_num], page_num) \o ExtractedFrom(doc, page_num + 1)

\* pdfplumber.open, the extraction loop and its except clause
PdfOpen ==
    /\ pc = "parse_pdf"
    /\ calls' = Append(calls, "pdfplumber.open")
    /\ \/ /\ \E error_type \in {"password_protected", "corrupted_file"} : error' = error_type
          /\ pc' = "raised"
          /\ UNCHANGED <<pages, pdf, all_tables>>
       \/ /\ \E doc \in Pdfs :
                /\ pdf' = doc
                /\ pages' = Len(doc)
                /\ all_tables' = ExtractedFrom(doc, 1)
          /\ pc' = IF all_tables' = <<>> THEN "pdf_ocr" ELSE "pdf_tables"
          /\ UNCHANGED error
    /\ UNCHANGED <<path, resultVars, excelVars, table_idx, seen_headers, data_rows, ocr_used, arg, ret>>

\* the OCR fallback: the branch "if not all_tables" with the check that follows it
PdfOcr ==
    /\ pc = "pdf_ocr"
    /\ calls' = Append(calls, "convert_from_path")
    /\ \/ /\ parse_warnings' = parse_warnings
                \o << <<"No tables found with pdfplumber, attempting OCR", 0>>,
                      <<"OCR image conversion failed", 0>> >>
          /\ error' = "ocr_failed"
          /\ pc' = "raised"
          /\ UNCHANGED <<all_tables, ocr_used, confidence>>
       \/ \E images \in {s \in StringsUpTo(OcrPool, pages) : Len(s) = pages} :
          \E ocr \in {OcrPagesFrom(images, 1)} :
             /\ parse_warnings' = parse_warnings
                   \o << <<"No tables found with pdfplumber, attempting OCR", 0>> >> \o ocr.warnings
             /\ all_tables' = ocr.tables
             /\ ocr_used' = TRUE
             /\ confidence' = "low"
             /\ IF ocr.tables = <<>>
                THEN error' = "no_data_found" /\ pc' = "raised"
                ELSE error' = error /\ pc' = "pdf_tables"
    /\ UNCHANGED <<path, header_found, header_row, columns, column_mapping, all_rows, returned,
                   excelVars, pages, pdf, table_idx, seen_headers, data_rows, arg, ret>>

\* tuple(str(c).lower().strip() for c in row if c)
HeaderSig(row) ==
    LET cells == SelectSeq(row, LAMBDA c : c /= None /\ c /= <<>>)
    IN [k \in 1..Len(cells) |-> Strip(Lower(cells[k]))]

\* tuple(c.lower().strip() for c in raw_data if c.strip())
RowSig(raw_data) ==
    LET cells == SelectSeq(raw_data, LAMBDA c : Strip(c) /= <<>>)
    IN [k \in 1..Len(cells) |-> Strip(Lower(cells[k]))]

\* "page_N"
PageLabel(page_num) ==
    <<"p","a","g","e","_">> \o <<(<<"1","2","3","4","5","6","7","8","9">>)[page_num]>>

\* the loop over data_rows of one table from row_offset on
RECURSIVE PdfRowsFrom(_, _, _, _)
PdfRowsFrom(rows, row_offset, page_num, seen) ==
    IF row_offset >= Len(rows) THEN <<>>
    ELSE LET row == rows[row_offset + 1]
             raw_data == StrCells(row)
             rest == PdfRowsFrom(rows, row_offset + 1, page_num, seen)
         IN IF is_end_row(row) THEN rest
            ELSE IF NonEmptyCount(raw_data) < 2 THEN rest
            ELSE IF RowSig(raw_data) \in seen THEN rest
            ELSE <<[raw |-> raw_data, source |-> PageLabel(page_num),
                    row_num |-> row_offset + 1, rent_type |-> "none"]>> \o rest

\* one iteration of the loop over all_tables
PdfTable ==
    /\ pc = "pdf_tables"
    /\ table_idx < Len(all_tables)
    /\ \E rows \in {all_tables[table_idx + 1].rows}, page_num \in {all_tables[table_idx + 1].page} :
       \E located \in {find_header_row(rows, MaxHeaderRows)} :
          IF ~header_found /\ ~located.found
          THEN UNCHANGED <<header_found, header_row, columns, column_mapping, seen_headers,
                           data_rows, all_rows>>
          ELSE /\ IF ~header_found
                  THEN /\ header_row' = located.idx + 1
                       /\ columns' = StrCells(located.row)
                       /\ column_mapping' = map_columns(located.row)
                       /\ header_found' = TRUE
                       /\ seen_headers' = seen_headers \cup {HeaderSig(located.row)}
                       /\ data_rows' = SubSeq(rows, located.idx + 2, Len(rows))
                  ELSE /\ data_rows' = IF rows = <<>> THEN data_rows
                                       ELSE IF HeaderSig(rows[1]) \in seen_headers THEN Tail(rows)
                                       ELSE rows
                       /\ UNCHANGED <<header_found, header_row, columns, column_mapping, seen_headers>>
               /\ all_rows' = all_rows \o PdfRowsFrom(data_rows', 0, page_num, seen_headers')
    /\ table_idx' = table_idx + 1
    /\ UNCHANGED <<pc, path, error, calls, confidence, parse_warnings, returned, excelVars,
                   pages, pdf, all_tables, ocr_used, arg, ret>>

\* the code after the loop over tables
PdfFinish ==
    /\ pc = "pdf_tables"
    /\ table_idx = Len(all_tables)
    /\ error' = Outcome(header_found, all_rows)
    /\ IF error' = "none"
       THEN /\ returned' = ResultOf(all_rows, columns, column_mapping)
            /\ pc' = "return"
       ELSE /\ returned' = returned
            /\ pc' = "raised"
    /\ UNCHANGED <<path, calls, confidence, parse_warnings, header_found, header_row,
                   columns, column_mapping, all_rows, excelVars, pdfVars, arg, ret>>

Next ==
    \/ ParseRentRoll
    \/ ExcelOpen
    \/ ExcelSheet
    \/ ExcelFinish
    \/ PdfOpen
    \/ PdfOcr
    \/ PdfTable
    \/ PdfFinish

Spec == Init /\ [][Next]_vars

(***************************************************************************)
(* Properties of the pipelines                                             *)
(***************************************************************************)
SupportedExts == {<<".","x","l","s","x">>, <<".","x","l","s">>, <<".","p","d","f">>}

\* C1: a path whose extension is none of .xlsx, .xls, .pdf (case-insensitively)
\* fails with InvalidFileType at once, whether or not a file exists at the
\* path, and no spreadsheet, PDF or OCR collaborator is called
C1_InvalidTypeBeforeAnyRead ==
    (pc /= "parse_rent_roll" /\ Lower(path.ext) \notin SupportedExts) =>
        (pc = "raised" /\ error = "invalid_file_type" /\ calls = <<>>)

\* parse_excel has finished, by a raise or a return
ExcelDone == workbook /= <<>> /\ pc \in {"raised", "return"}

\* a sheet yields a header: it can be read, has at least 3 rows, and one of its
\* first MaxHeaderRows rows scores at least 2
YieldsHeader(sheet) ==
    /\ ~sheet.fails
    /\ Len(sheet.rows) >= 3
    /\ \E k \in 1..Len(sheet.rows) :
          k <= MaxHeaderRows /\ sheet.rows[k] /= <<>> /\ RowScore(sheet.rows[k]) >= 2

\* the positions (1-based) of the rows of a sheet that survive: after the header,
\* before the first end row, with at least 2 non-empty cells
Survivors(sheet) ==
    IF ~YieldsHeader(sheet) THEN {}
    ELSE LET h == find_header_row(sheet.rows, MaxHeaderRows).idx + 1
             after == (h + 1)..Len(sheet.rows)
             stops == {k \in after : is_end_row(sheet.rows[k])}
         IN {k \in after : (\A s \in stops : k < s) /\ NonEmptyCount(StrCells(sheet.rows[k])) >= 2}

\* C2: parse_excel fails with NoHeaderFound exactly when no sheet yields a
\* header, with NoDataFound exactly when some sheet yields a header but no data
\* row survives in any sheet, and otherwise returns a result whose total_rows is
\* the number of its rows and at least 1
C2_ExcelOutcomes ==
    ExcelDone =>
        LET yields == \E k \in 1..Len(workbook) : YieldsHeader(workbook[k])
            survive == \E k \in 1..Len(workbook) : Survivors(workbook[k]) /= {}
        IN /\ (pc = "raised" /\ error = "no_header_found") <=> ~yields
           /\ (pc = "raised" /\ error = "no_data_found") <=> (yields /\ ~survive)
           /\ (yields /\ survive) =>
                 /\ pc = "return"
                 /\ returned.total_rows = Len(returned.rows)
                 /\ returned.total_rows >= 1

\* a header is found in one sheet, another sheet yields none, and no row survives
C2_Witness ==
    /\ ExcelDone
    /\ error = "no_data_found"
    /\ \E k \in 1..Len(workbook) : YieldsHeader(workbook[k])
    /\ \E k \in 1..Len(workbook) : ~workbook[k].fails /\ ~YieldsHeader(workbook[k])

\* a workbook none of whose sheets yields a header
NoSheetYieldsHeader ==
    /\ ExcelDone
    /\ error = "no_header_found"
    /\ Len(workbook) >= 2

GradeRank(grade) == CASE grade = "high" -> 2 [] grade = "medium" -> 1 [] grade = "low" -> 0

\* C6: the confidence grade starts at high and no step raises it
C6_ConfidenceOnlyDegrades ==
    confidence = "high" /\ [][GradeRank(confidence') <= GradeRank(confidence)]_vars

\* a sheet failed, a later sheet was read and gave rows, and the grade stayed medium
C6_Witness ==
    /\ pc = "return"
    /\ Len(workbook) >= 2
    /\ workbook[1].fails
    /\ Survivors(workbook[2]) /= {}
    /\ confidence = "medium"

\* the OCR fallback lowered the grade to low and the file was parsed
OcrLowersConfidence == pc = "return" /\ ocr_used /\ confidence = "low"

\* the elements of a set of numbers in ascending order
RECURSIVE Ascending(_)
Ascending(S) ==
    IF S = {} THEN <<>>
    ELSE LET m == CHOOSE x \in S : \A y \in S : x <= y
         IN <<m>> \o Ascending(S \ {m})

\* <<source, row_num>> of the surviving rows of the first n sheets, in source order
RECURSIVE ExpectedKeys(_, _, _)
ExpectedKeys(book, names, n) ==
    IF n = 0 THEN <<>>
    ELSE LET positions == Ascending(Survivors(book[n]))
         IN ExpectedKeys(book, names, n - 1)
            \o [i \in 1..Len(positions) |-> <<names[n], positions[i]>>]

\* C7: a failure while reading one sheet does not abort the file: the sheet gets
\* a warning, confidence is medium, every sheet is processed in source order and
\* the rows of the sheets before and after it are in the result; the file fails
\* only when every sheet failed or was skipped
C7_SheetFailureIsLocal ==
    workbook /= <<>> =>
        /\ pc \in {"raised", "return"} =>
              /\ sheet_idx = Len(workbook)
              /\ error \in {"none", "no_header_found", "no_data_found"}
        /\ \A k \in 1..sheet_idx :
              workbook[k].fails =>
                  /\ \E w \in 1..Len(parse_warnings) : parse_warnings[w] = <<"error", sheet_names[k]>>
                  /\ confidence = "medium"
        /\ [i \in 1..Len(all_rows) |-> <<all_rows[i].source, all_rows[i].row_num>>]
              = ExpectedKeys(workbook, sheet_names, sheet_idx)
        /\ pc = "raised" =>
              \A k \in 1..Len(workbook) :
                  \E w \in 1..Len(parse_warnings) : parse_warnings[w][2] = sheet_names[k]

\* the second of three sheets failed and the result has rows of the first and
\* of the third
C7_Witness ==
    /\ pc = "return"
    /\ Len(workbook) = 3
    /\ workbook[2].fails
    /\ \E i, j \in 1..Len(all_rows) :
          all_rows[i].source = sheet_names[1] /\ all_rows[j].source = sheet_names[3]

\* parse_pdf has decided whether to fall back on OCR
PdfDecided == pdf /= <<>> /\ pc \in {"pdf_tables", "raised", "return"}

\* the OCR collaborator was called
OcrCalled == \E c \in 1..Len(calls) : calls[c] = "convert_from_path"

\* the primary extractor yields no table at all
YieldsNoTable == \A p \in 1..Len(pdf) : pdf[p] = <<>>

\* the primary extractor yields no table with more than one row
YieldsNoUsableTable == \A p \in 1..Len(pdf) : \A t \in 1..Len(pdf[p]) : Len(pdf[p][t]) <= 1

\* no table or pseudo-table has a row among its first MaxHeaderRows scoring at least 2
NoTableYieldsHeader ==
    \A t \in 1..Len(all_tables) :
        \A k \in 1..Len(all_tables[t].rows) :
            k > MaxHeaderRows \/ all_tables[t].rows[k] = <<>> \/ RowScore(all_tables[t].rows[k]) < 2

\* C8 as stated: OCR is called, ocr_used set and confidence low exactly when the
\* primary extractor yields no tables (ocr_used and confidence are those of a
\* run that OCR did not abort); when it yields at least one table OCR is never
\* called; when OCR yields nothing the file fails with NoDataFound, and when no
\* table or pseudo-table yields a header with NoHeaderFound
C8_OcrExactlyWhenNoTables ==
    PdfDecided =>
        /\ OcrCalled <=> YieldsNoTable
        /\ error /= "ocr_failed" =>
              /\ ocr_used <=> YieldsNoTable
              /\ (confidence = "low") <=> YieldsNoTable
        /\ (ocr_used /\ all_tables = <<>>) => (pc = "raised" /\ error = "no_data_found")
        /\ (pc \in {"raised", "return"} /\ all_tables /= <<>> /\ NoTableYieldsHeader) =>
              (pc = "raised" /\ error = "no_header_found")

\* C8 amended: OCR is called, ocr_used set and confidence low exactly when the
\* primary extractor yields no table with more than one row (a run that the
\* page rendering aborts with OcrFailed has called OCR and sets neither); when
\* a table with more than one row exists OCR is never called and ocr_used
\* stays false; when OCR yields nothing the file fails with NoDataFound, and
\* when no table or pseudo-table yields a header with NoHeaderFound
C8_OcrWhenNoUsableTable ==
    PdfDecided =>
        /\ OcrCalled <=> YieldsNoUsableTable
        /\ error /= "ocr_failed" =>
              /\ ocr_used <=> YieldsNoUsableTable
              /\ (confidence = "low") <=> YieldsNoUsableTable
        /\ error = "ocr_failed" => (pc = "raised" /\ OcrCalled /\ ~ocr_used)
        /\ (ocr_used /\ all_tables = <<>>) => (pc = "raised" /\ error = "no_data_found")
        /\ (pc \in {"raised", "return"} /\ all_tables /= <<>> /\ NoTableYieldsHeader) =>
              (pc = "raised" /\ error = "no_header_found")

\* the primary extractor yields a table, of one row only, and the file is
\* parsed from the OCR text
C8_Witness ==
    /\ pc = "return"
    /\ ~YieldsNoTable
    /\ YieldsNoUsableTable
    /\ ocr_used
    /\ confidence = "low"

\* OCR yields nothing: the file fails with NoDataFound
OcrYieldsNothing == pc = "raised" /\ ocr_used /\ all_tables = <<>> /\ error = "no_data_found"

\* the pseudo-tables of the OCR text yield no header
OcrTablesWithoutHeader ==
    pc = "raised" /\ ocr_used /\ all_tables /= <<>> /\ error = "no_header_found"

\* C9: in a result, of two rows with the same source label the later one has
\* the strictly greater row_num, so (source, row_num) identifies a row
C9_RowNumMonotonicPerSource ==
    pc = "return" =>
        \A i, j \in 1..Len(returned.rows) :
            (i < j /\ returned.rows[i].source = returned.rows[j].source) =>
                returned.rows[i].row_num < returned.rows[j].row_num

\* a sentinel row: entirely empty, or one of its first three cells contains a
\* terminal keyword, case-insensitively
Sentinel(row) ==
    \/ \A i \in 1..Len(row) : row[i] = None \/ Strip(row[i]) = <<>>
    \/ \E i \in 1..Len(row), k \in 1..Len(END_ROW_KEYWORDS) :
          i <= 3 /\ row[i] /= None /\ Contains(Lower(row[i]), END_ROW_KEYWORDS[k])

\* the position (1-based) of the header of a sheet that yields one
HeaderPos(sheet) == find_header_row(sheet.rows, MaxHeaderRows).idx + 1

\* the positions after the header of the sentinel rows of a sheet
SentinelsAfterHeader(sheet) ==
    {p \in (HeaderPos(sheet) + 1)..Len(sheet.rows) : Sentinel(sheet.rows[p])}

\* the rows of the result that come from the k-th sheet
RowsOfSheet(k) == {i \in 1..Len(all_rows) : all_rows[i].source = sheet_names[k]}

\* C13: within one sheet extraction stops at the first sentinel row after the
\* header: every emitted row is a row of its sheet strictly between the header
\* and the first sentinel and has at least 2 non-empty cells, every such row is
\* emitted, and this holds for each sheet, also after a sheet that was cut short
C13_SheetStopsAtFirstSentinel ==
    \A k \in 1..sheet_idx :
        LET sheet == workbook[k] IN
        IF ~YieldsHeader(sheet) THEN RowsOfSheet(k) = {}
        ELSE /\ \A i \in RowsOfSheet(k) :
                   LET p == all_rows[i].row_num IN
                   /\ HeaderPos(sheet) < p /\ p <= Len(sheet.rows)
                   /\ all_rows[i].raw = StrCells(sheet.rows[p])
                   /\ \A s \in SentinelsAfterHeader(sheet) : p < s
                   /\ NonEmptyCount(all_rows[i].raw) >= 2
             /\ \A p \in (HeaderPos(sheet) + 1)..Len(sheet.rows) :
                   ((\A s \in SentinelsAfterHeader(sheet) : p < s)
                    /\ NonEmptyCount(StrCells(sheet.rows[p])) >= 2)
                   => \E i \in RowsOfSheet(k) : all_rows[i].row_num = p

\* a sheet is cut short at a sentinel that rows with 2 or more cells follow, and
\* the next sheet still gives rows
C13_Witness ==
    /\ pc = "return"
    /\ Len(workbook) >= 2
    /\ YieldsHeader(workbook[1])
    /\ RowsOfSheet(1) /= {}
    /\ \E s \in SentinelsAfterHeader(workbook[1]) :
          \E p \in (s + 1)..Len(workbook[1].rows) : NonEmptyCount(StrCells(workbook[1].rows[p])) >= 2
    /\ RowsOfSheet(2) /= {}

\* the non-empty-cell signature of a row: its non-blank cells, trimmed and
\* lower-cased, in order
Signature(raw) ==
    LET cells == SelectSeq(raw, LAMBDA c : Strip(c) /= <<>>)
    IN [k \in 1..Len(cells) |-> Lower(Strip(cells[k]))]

\* a row that qualifies as data under the accepted header
Qualifies(row) ==
    /\ ~Sentinel(row)
    /\ NonEmptyCount(StrCells(row)) >= 2
    /\ Signature(StrCells(row)) /= Signature(columns)

\* the position of the first table that yields a header, 0 when there is none
HeaderTablePos ==
    LET yielding == {t \in 1..Len(all_tables) : find_header_row(all_tables[t].rows, MaxHeaderRows).found}
    IN IF yielding = {} THEN 0 ELSE First(yielding)

\* the rows of table t that may be data: those after the header in the table of
\* the header, all of them in a later table, none in an earlier one
CandidateRows(t) ==
    LET rows == all_tables[t].rows IN
    IF t < HeaderTablePos THEN <<>>
    ELSE IF t = HeaderTablePos
    THEN SubSeq(rows, find_header_row(rows, MaxHeaderRows).idx + 2, Len(rows))
    ELSE rows

\* the qualifying rows of the first n tables, in table order
RECURSIVE QualifyingRows(_)
QualifyingRows(n) ==
    IF n = 0 THEN <<>>
    ELSE QualifyingRows(n - 1)
         \o [k \in 1..Len(SelectSeq(CandidateRows(n), Qualifies)) |->
                StrCells(SelectSeq(CandidateRows(n), Qualifies)[k])]

\* C14: no row of a PDF result is a sentinel, has fewer than 2 non-empty cells
\* or has the signature of the accepted header, whether it leads a later table
\* or lies among the data; sentinels are only skipped, so the result holds every
\* other row after the header, of the same table and of later tables
C14_PdfRowsAreTheQualifyingRows ==
    (pc = "return" /\ pdf /= <<>>) =>
        /\ \A i \in 1..Len(all_rows) :
              /\ ~Sentinel(all_rows[i].raw)
              /\ NonEmptyCount(all_rows[i].raw) >= 2
              /\ Signature(all_rows[i].raw) /= Signature(columns)
        /\ [i \in 1..Len(all_rows) |-> all_rows[i].raw] = QualifyingRows(Len(all_tables))

(***************************************************************************)
(* The Column Mapper and the Aggregator on one detected header             *)
(***************************************************************************)
RowHeaderSpaced ==
    <<<<"L","e","j","n","r">>, <<" ","A","r","e","a","l"," ">>, <<"L","e","j","e">>>>

RowHeaderBlank ==
    <<<<"L","e","j","n","r">>, <<"A","r","e","a","l">>, <<"L","e","j","e">>, <<>>>>

DetectedHeaders == {RowHeader, RowHeaderSpaced, RowHeaderBlank, RowHeaderPadded, RowHeaderNoSqm}

SheetDataRows == {RowData1, RowData2, RowData3, RowData4}

\* parse_excel on a sheet whose first row is the header: columns, the mapping
\* and the emitted rows as they reach calculate_summary_stats
InitAgreement ==
    /\ pc = "call"
    /\ \E header \in DetectedHeaders, raws \in StringsUpTo(SheetDataRows, MaxAggRows) :
          \E located \in {find_header_row(<<header>> \o raws, MaxHeaderRows)} :
             /\ located.found
             /\ located.idx = 0
             /\ arg = [rows |-> EmittedRows(raws), columns |-> StrCells(located.row),
                       column_mapping |-> map_columns(located.row), header_row |-> located.row]
    /\ ret = NoReturn
    /\ IdlePipeline

SpecAgreement == InitAgreement /\ [][NextAggregate]_vars

\* the header cells the Column Mapper maps to tag
MappedCells(a, tag) ==
    {i \in 1..Len(a.header_row) :
        /\ a.header_row[i] /= None
        /\ DictHas(a.column_mapping, Strip(a.header_row[i]))
        /\ DictGet(a.column_mapping, Strip(a.header_row[i])) = tag}

BlankCell(cell) == cell = None \/ Strip(cell) = <<>>

\* the rows with a strictly positive number in cell i
PositiveAt(a, i) ==
    {r \in 1..Len(a.rows) : i <= Len(a.rows[r].raw) /\ Positive(convert_danish_number(a.rows[r].raw[i]))}

\* the tag resolves to the one cell mapped to it, and its values are counted
ResolvesMapped(a, out, tag, counted) ==
    \A i \in MappedCells(a, tag) :
        MappedCells(a, tag) = {i} =>
            /\ StandardIdx(a.columns, a.column_mapping, tag) = i - 1
            /\ counted = Cardinality(PositiveAt(a, i))

\* C17: when exactly one cell of the detected header is mapped to sqm (or to
\* annual_rent), the Aggregator resolves the tag to that cell's column, also
\* when the cell has leading or trailing whitespace; a blank header cell is
\* never given a tag
C17_MapperAndAggregatorAgree ==
    pc = "return" =>
        /\ ResolvesMapped(arg, ret, "sqm", ret.units_with_sqm)
        /\ ResolvesMapped(arg, ret, "annual_rent", ret.units_with_rent)
        /\ \A i \in 1..Len(arg.header_row) :
              BlankCell(arg.header_row[i]) => \A tag \in {COLUMN_MAPPING[k][2] : k \in 1..Len(COLUMN_MAPPING)} : i \notin MappedCells(arg, tag)

\* the cells of a header that are neither blank nor padded with whitespace
CleanHeader(header) ==
    \A i \in 1..Len(header) :
        header[i] /= None /\ header[i] /= <<>> /\ Strip(header[i]) = header[i]

\* on a header without blank or padded cells the two agree
AgreeOnCleanHeader ==
    (pc = "return" /\ CleanHeader(arg.header_row)) =>
        /\ ResolvesMapped(arg, ret, "sqm", ret.units_with_sqm)
        /\ ResolvesMapped(arg, ret, "annual_rent", ret.units_with_rent)

\* the header Lejnr, " Areal ", Leje: sqm is mapped and not resolved
PaddedHeaderNotResolved ==
    /\ pc = "return"
    /\ arg.header_row = RowHeaderSpaced
    /\ [i \in 1..Len(arg.rows) |-> arg.rows[i].raw] = <<RowData1, RowData4>>
    /\ MappedCells(arg, "sqm") = {2}
    /\ StandardIdx(arg.columns, arg.column_mapping, "sqm") = -1
    /\ ret.units_with_sqm = 0
    /\ ret.rows_missing_sqm = <<2, 3>>

\* the header Lejnr, Areal, Leje, "": the blank cell is mapped to unit_id
BlankHeaderTagged ==
    /\ pc = "return"
    /\ arg.header_row = RowHeaderBlank
    /\ DictHas(arg.column_mapping, <<>>)
    /\ DictGet(arg.column_mapping, <<>>) = "unit_id"

\* the header Lejnr, Areal, Leje: sqm resolves to the second column
CleanHeaderResolved ==
    /\ pc = "return"
    /\ arg.header_row = RowHeader
    /\ [i \in 1..Len(arg.rows) |-> arg.rows[i].raw] = <<RowData1, RowData4>>
    /\ StandardIdx(arg.columns, arg.column_mapping, "sqm") = 1
    /\ ret.units_with_sqm = 2

====
